---- MODULE Spec2Model ----
(***************************************************************************)
(* Interview-Agent: the live-utterance segmentation and gated dispatch     *)
(* pipeline.                                                               *)
(*                                                                         *)
(*   SegSpec    AudioStreamHandler  (src/audio_handler.py): the on_turn    *)
(*              callback of the streaming thread and the threading.Timer   *)
(*              threads of the debounce, statement by statement.           *)
(*   DispSpec   GeminiHandler       (src/ai_handler.py): one daemon thread *)
(*              per process_transcript / process_image call.               *)
(*   WatchSpec  GCPBucketListener   (src/gcp_bucket_listener.py): the poll *)
(*              loop over the bucket.                                      *)
(*   WatchStopSpec  the same loop run in the foreground, where Ctrl-C      *)
(*              reaches listen.                                            *)
(*   SessSpec   WebTranscriptionApp (src/app.py) and start_streaming /     *)
(*              stop_streaming: the operator starts, stops and restarts    *)
(*              recording; one recording thread per session.               *)
(*   StopSpec   the first session with its debounce timers while the       *)
(*              operator stops it.                                         *)
(*   PipeSpec   the three components as app.py wires them: the streaming   *)
(*              thread and the listen loop produce, the dispatch threads   *)
(*              run, the operator freezes and unfreezes.                   *)
(*   CmdSpec    start_recording and stop_recording with and without an     *)
(*              audio handler, and the recording threads.                  *)
(*   TalkSpec   the streaming thread and the text dispatches over two      *)
(*              utterances.                                                *)
(*                                                                         *)
(* Texts are sequences of one-character strings, so that strip() and the   *)
(* substring test are computed and not assumed.                            *)
(***************************************************************************)
EXTENDS Integers, Sequences, FiniteSets, TLC

VARIABLES
    \* ---- AudioStreamHandler
    current_transcript,         \* self.current_transcript
    last_processed_transcript,  \* self.last_processed_transcript
    transcript_timer,           \* self.transcript_timer: 0 is None, else an index of timers
    timers,                     \* every threading.Timer created so far: the position of its thread
    turn_pc,                    \* position of the streaming thread inside on_turn
    turn_event,                 \* the event on_turn is handling
    turns,                      \* number of Turn events delivered
    emitted,                    \* the calls of on_transcript_update, in order
    \* ---- GeminiHandler
    is_frozen,                  \* self.is_frozen
    disp,                       \* one daemon thread per process_transcript / process_image call
    calls,                      \* the generate_content calls made: [svc, id]
    sink,                       \* what is sent to the client, in order: [ev, id], id the
                                \* dispatch whose callback sent it (0: no dispatch)
    \* ---- GCPBucketListener and the bucket
    store,                      \* the bucket: time_created of each object, 0 if absent
    clock,                      \* the time of the latest upload
    start_time,                 \* self.start_time
    loaded,                     \* what load_metadata read at startup
    seen_files,                 \* self.seen_files
    listen_pc,                  \* the listen loop: running, or exited
    outcome,                    \* the return path the latest check_for_new_pngs took
    new_files,                  \* what the latest check_for_new_pngs returned
    downloads,                  \* the download_to_filename calls, in order: [blob, ok]
    failures,                   \* number of listing and download failures so far
    image_list,                 \* WebTranscriptionApp.image_list, newest first
    \* ---- the streaming session: AudioStreamHandler and WebTranscriptionApp
    client,                     \* self.client: 0 is None, else the StreamingClient created
                                \* by recording thread number client
    is_recording,               \* WebTranscriptionApp.is_recording
    sess,                       \* the recording threads started so far: position, the
                                \* client stream() was called on, exception in flight
    conn,                       \* the session of each StreamingClient: new, open, closed
    cmd_pc,                     \* position of the command handler inside stop_recording
    disconnects,                \* the clients disconnect(terminate=True) was called on
    status,                     \* the status messages sent: [msg, by]
    audio_handler,              \* WebTranscriptionApp.audio_handler: TRUE is an
                                \* AudioStreamHandler, FALSE is None
    cmd_result                  \* what the latest start_recording or stop_recording
                                \* gave its caller

segVars == <<current_transcript, last_processed_transcript, transcript_timer,
             timers, turn_pc, turn_event, turns, emitted>>

dispVars == <<is_frozen, disp, calls, sink>>

watchVars == <<store, clock, start_time, loaded, seen_files, listen_pc, outcome,
               new_files, downloads, failures, image_list>>

sessVars == <<client, is_recording, sess, conn, cmd_pc, disconnects, status,
              audio_handler, cmd_result>>

vars == <<segVars, dispVars, watchVars, sessVars>>

nonSeg == <<dispVars, watchVars, sessVars>>
nonDisp == <<segVars, watchVars, sessVars>>
nonWatch == <<segVars, dispVars, sessVars>>

\* ------------------------------------------------------------------ bounds
\* Turn events delivered to on_turn, and debounce timers created.
MaxTurns == 3
MaxTimers == 2

\* ------------------------------------------------------------------ texts
\* None, where a text is expected
None == <<"None">>

IsSpace(c) == c = " "

\* str.strip(): drop the leading and the trailing whitespace
RECURSIVE LStrip(_)
LStrip(s) == IF s # <<>> /\ IsSpace(Head(s)) THEN LStrip(Tail(s)) ELSE s

RECURSIVE RStrip(_)
RStrip(s) ==
    IF s # <<>> /\ IsSpace(s[Len(s)]) THEN RStrip(SubSeq(s, 1, Len(s) - 1)) ELSE s

Strip(s) == RStrip(LStrip(s))

\* `sub in s` of Python strings
Contains(s, sub) ==
    \E i \in 0..(Len(s) - Len(sub)) : SubSeq(s, i + 1, i + Len(sub)) = sub

\* event.transcript values the streaming session delivers
RawTranscripts ==
    { <<>>, <<" ">>, <<"a">>, <<" ", "a">>, <<"b">>, <<"b", " ">> }

TurnEvents == [transcript : RawTranscripts, end_of_turn : BOOLEAN]

NoEvent == [transcript |-> <<>>, end_of_turn |-> FALSE]

\* ------------------------------------------------------- AudioStreamHandler
\* threading.Timer.cancel(): sets the finished event; it stops the timer only
\* while the thread is still waiting for the interval.
TimerCancel(ts, t) ==
    IF ts[t] = "armed" THEN [ts EXCEPT ![t] = "cancelled"] ELSE ts

\* the condition of lines 111 and 118
ShouldProcess(cur, last) == cur # <<>> /\ cur # last

\* what start_recording and stop_recording give their caller: the dict
\* returned, or the exception that left the method
Returned(cmd, success, error) ==
    [cmd |-> cmd, raised |-> FALSE, success |-> success, error |-> error]
RaisedIn(cmd, error) ==
    [cmd |-> cmd, raised |-> TRUE, success |-> FALSE, error |-> error]

\* no command has been given yet
NoResult == Returned("", FALSE, "")

\* __init__, lines 16-27
SegInit0 ==
    /\ current_transcript = <<>>
    /\ last_processed_transcript = <<>>
    /\ transcript_timer = 0
    /\ timers = <<>>
    /\ turn_pc = "idle"
    /\ turn_event = NoEvent
    /\ turns = 0
    /\ emitted = <<>>

\* __init__, line 19, and WebTranscriptionApp.__init__, app.py lines 35-36:
\* no client, not recording, no recording thread
SessInit0 ==
    /\ client = 0
    /\ is_recording = FALSE
    /\ sess = <<>>
    /\ conn = <<>>
    /\ cmd_pc = "idle"
    /\ disconnects = {}
    /\ status = {}
    /\ audio_handler = TRUE
    /\ cmd_result = NoResult

\* The streaming session delivers a Turn event to on_turn.
TurnBegin ==
    /\ turn_pc = "idle"
    /\ turns < MaxTurns
    /\ \E e \in TurnEvents :
          /\ e.end_of_turn \/ Len(timers) < MaxTimers
          /\ turn_event' = e
    /\ turns' = turns + 1
    /\ turn_pc' = "l43"
    /\ UNCHANGED <<current_transcript, last_processed_transcript, transcript_timer,
                   timers, emitted>>
    /\ UNCHANGED nonSeg

\* lines 43-44
OnTurnStrip ==
    /\ turn_pc = "l43"
    /\ IF Strip(turn_event.transcript) # <<>>
         THEN /\ current_transcript' = Strip(turn_event.transcript)
              /\ turn_pc' = "l46"
         ELSE /\ turn_pc' = "idle"
              /\ UNCHANGED current_transcript
    /\ UNCHANGED <<last_processed_transcript, transcript_timer, timers, turn_event,
                   turns, emitted>>
    /\ UNCHANGED nonSeg

\* line 46: is there a timer to cancel
OnTurnTimerCheck ==
    /\ turn_pc = "l46"
    /\ turn_pc' = IF transcript_timer # 0 THEN "l47" ELSE "l49"
    /\ UNCHANGED <<current_transcript, last_processed_transcript, transcript_timer,
                   timers, turn_event, turns, emitted>>
    /\ UNCHANGED nonSeg

\* Mutant of OnTurnCancel: the previous timer is left running.
OnTurnCancelSkipped ==
    /\ turn_pc = "l47"
    /\ turn_pc' = "l49"
    /\ UNCHANGED <<current_transcript, last_processed_transcript, transcript_timer,
                   timers, turn_event, turns, emitted>>
    /\ UNCHANGED nonSeg

\* line 47: self.transcript_timer is read again and cancelled; when
\* stop_streaming has set it to None since line 46 the attribute access raises
\* AttributeError and on_turn ends there
OnTurnCancel ==
    /\ turn_pc = "l47"
    /\ IF transcript_timer # 0
         THEN /\ timers' = TimerCancel(timers, transcript_timer)
              /\ turn_pc' = "l49"
         ELSE /\ turn_pc' = "idle"
              /\ UNCHANGED timers
    /\ UNCHANGED <<current_transcript, last_processed_transcript, transcript_timer,
                   turn_event, turns, emitted>>
    /\ UNCHANGED nonSeg

\* lines 49-52
OnTurnBranch ==
    /\ turn_pc = "l49"
    /\ turn_pc' = IF turn_event.end_of_turn THEN "l111" ELSE "l121"
    /\ UNCHANGED <<current_transcript, last_processed_transcript, transcript_timer,
                   timers, turn_event, turns, emitted>>
    /\ UNCHANGED nonSeg

\* lines 121-122, _schedule_transcript_processing
OnTurnSchedule ==
    /\ turn_pc = "l121"
    /\ timers' = Append(timers, "armed")
    /\ transcript_timer' = Len(timers) + 1
    /\ turn_pc' = "idle"
    /\ UNCHANGED <<current_transcript, last_processed_transcript, turn_event, turns,
                   emitted>>
    /\ UNCHANGED nonSeg

\* line 111, _process_transcript_immediately called from on_turn
OnTurnCheck ==
    /\ turn_pc = "l111"
    /\ turn_pc' = IF ShouldProcess(current_transcript, last_processed_transcript)
                    THEN "l113" ELSE "idle"
    /\ UNCHANGED <<current_transcript, last_processed_transcript, transcript_timer,
                   timers, turn_event, turns, emitted>>
    /\ UNCHANGED nonSeg

\* lines 112-113
OnTurnEmit ==
    /\ turn_pc = "l113"
    /\ emitted' = Append(emitted, current_transcript)
    /\ turn_pc' = "l114"
    /\ UNCHANGED <<current_transcript, last_processed_transcript, transcript_timer,
                   timers, turn_event, turns>>
    /\ UNCHANGED nonSeg

\* line 114
OnTurnWrite ==
    /\ turn_pc = "l114"
    /\ last_processed_transcript' = current_transcript
    /\ turn_pc' = "idle"
    /\ UNCHANGED <<current_transcript, transcript_timer, timers, turn_event, turns,
                   emitted>>
    /\ UNCHANGED nonSeg

\* threading.Timer.run: the interval has passed and the timer was not cancelled
TimerFire ==
    \E t \in DOMAIN timers :
        /\ timers[t] = "armed"
        /\ timers' = [timers EXCEPT ![t] = "l118"]
        /\ UNCHANGED <<current_transcript, last_processed_transcript, transcript_timer,
                       turn_pc, turn_event, turns, emitted>>
    /\ UNCHANGED nonSeg

\* line 118, process_delayed
TimerCheckDelayed ==
    \E t \in DOMAIN timers :
        /\ timers[t] = "l118"
        /\ timers' = [timers EXCEPT ![t] =
              IF ShouldProcess(current_transcript, last_processed_transcript)
                THEN "l111" ELSE "done"]
        /\ UNCHANGED <<current_transcript, last_processed_transcript, transcript_timer,
                       turn_pc, turn_event, turns, emitted>>
    /\ UNCHANGED nonSeg

\* line 111, _process_transcript_immediately called from process_delayed
TimerCheck ==
    \E t \in DOMAIN timers :
        /\ timers[t] = "l111"
        /\ timers' = [timers EXCEPT ![t] =
              IF ShouldProcess(current_transcript, last_processed_transcript)
                THEN "l113" ELSE "done"]
        /\ UNCHANGED <<current_transcript, last_processed_transcript, transcript_timer,
                       turn_pc, turn_event, turns, emitted>>
    /\ UNCHANGED nonSeg

\* lines 112-113
TimerEmit ==
    \E t \in DOMAIN timers :
        /\ timers[t] = "l113"
        /\ emitted' = Append(emitted, current_transcript)
        /\ timers' = [timers EXCEPT ![t] = "l114"]
        /\ UNCHANGED <<current_transcript, last_processed_transcript, transcript_timer,
                       turn_pc, turn_event, turns>>
    /\ UNCHANGED nonSeg

\* line 114
TimerWrite ==
    \E t \in DOMAIN timers :
        /\ timers[t] = "l114"
        /\ last_processed_transcript' = current_transcript
        /\ timers' = [timers EXCEPT ![t] = "done"]
        /\ UNCHANGED <<current_transcript, transcript_timer, turn_pc, turn_event, turns,
                       emitted>>
    /\ UNCHANGED nonSeg

SegNext ==
    \/ TurnBegin
    \/ OnTurnStrip
    \/ OnTurnTimerCheck
    \/ OnTurnCancel
    \/ OnTurnBranch
    \/ OnTurnSchedule
    \/ OnTurnCheck
    \/ OnTurnEmit
    \/ OnTurnWrite
    \/ TimerFire
    \/ TimerCheckDelayed
    \/ TimerCheck
    \/ TimerEmit
    \/ TimerWrite

\* ------------------------------------------------------------ GeminiHandler
\* Bound: calls of process_transcript and process_image.
MaxDispatch == 2

Yes == <<"Y", "e", "s">>

\* response.text values the classification call returns
ClassifierTexts ==
    { <<" ", "Y", "e", "s", ".">>, <<"N", "o", " ">>, <<"y", "e", "s">> }

\* Mutant of IsAffirmative: the match ignores case.
IsAffirmativeAnyCase(result) ==
    Contains(result, Yes) \/ Contains(result, <<"y", "e", "s">>)

\* line 49: "Yes" in classification_result
IsAffirmative(result) == Contains(result, Yes)

\* the thread of one dispatch: its argument, its position and its local
\* classification_result
NewThread(kind, arg) ==
    [kind |-> kind, arg |-> arg, pc |-> "gate", classification |-> None]

\* the arguments process_transcript and process_image are called with
Transcripts == {<<"a">>}
ImagePaths == {[dir |-> "downloaded_images/", parts |-> <<>>, ext |-> ".png"]}

Call(svc, d) == [svc |-> svc, id |-> d]
Event(ev, d) == [ev |-> ev, id |-> d]

\* __init__, lines 11-19
DispInit0 ==
    /\ is_frozen = FALSE
    /\ disp = <<>>
    /\ calls = {}
    /\ sink = <<>>

\* lines 21-22, set_frozen
SetFrozen ==
    /\ \E frozen \in BOOLEAN : is_frozen' = frozen
    /\ UNCHANGED <<disp, calls, sink>>
    /\ UNCHANGED nonDisp

\* lines 24, 77-79: process_transcript starts the daemon thread and returns
ProcessTranscript ==
    /\ Len(disp) < MaxDispatch
    /\ \E transcript \in Transcripts : disp' = Append(disp, NewThread("text", transcript))
    /\ UNCHANGED <<is_frozen, calls, sink>>
    /\ UNCHANGED nonDisp

\* lines 81, 137-139: process_image starts the daemon thread and returns
ProcessImage ==
    /\ Len(disp) < MaxDispatch
    /\ \E image_path \in ImagePaths : disp' = Append(disp, NewThread("image", image_path))
    /\ UNCHANGED <<is_frozen, calls, sink>>
    /\ UNCHANGED nonDisp

\* Mutant of TextGate: is_frozen is not looked at.
TextGateNoFreeze(d) ==
    /\ disp[d].kind = "text"
    /\ disp[d].pc = "gate"
    /\ disp' = [disp EXCEPT ![d].pc = "l44"]
    /\ UNCHANGED <<is_frozen, calls, sink>>
    /\ UNCHANGED nonDisp

\* lines 26-32 of _process: the freeze gate (self.model is always set by __init__)
TextGate(d) ==
    /\ disp[d].kind = "text"
    /\ disp[d].pc = "gate"
    /\ disp' = [disp EXCEPT ![d].pc = IF is_frozen THEN "skipped" ELSE "l44"]
    /\ UNCHANGED <<is_frozen, calls, sink>>
    /\ UNCHANGED nonDisp

\* line 44: the classification call is made
TextClassifyCall(d) ==
    /\ disp[d].kind = "text"
    /\ disp[d].pc = "l44"
    /\ calls' = calls \cup {Call("classify", d)}
    /\ disp' = [disp EXCEPT ![d].pc = "classifying"]
    /\ UNCHANGED <<is_frozen, sink>>
    /\ UNCHANGED nonDisp

\* lines 44-49 and 71-75: the classification call returns a text or raises
TextClassifyReturn(d) ==
    /\ disp[d].kind = "text"
    /\ disp[d].pc = "classifying"
    /\ \/ \E text \in ClassifierTexts :
             disp' = [disp EXCEPT ![d].classification = Strip(text),
                                  ![d].pc = IF IsAffirmative(Strip(text))
                                              THEN "l50" ELSE "done"]
       \/ disp' = [disp EXCEPT ![d].pc = "failed"]
    /\ UNCHANGED <<is_frozen, calls, sink>>
    /\ UNCHANGED nonDisp

\* Mutant of TextClear: the answer stage starts without the clear signal.
TextClearSkipped(d) ==
    /\ disp[d].kind = "text"
    /\ disp[d].pc = "l50"
    /\ disp' = [disp EXCEPT ![d].pc = "l67"]
    /\ UNCHANGED <<is_frozen, calls, sink>>
    /\ UNCHANGED nonDisp

\* lines 50-51
TextClear(d) ==
    /\ disp[d].kind = "text"
    /\ disp[d].pc = "l50"
    /\ sink' = Append(sink, Event("clear", d))
    /\ disp' = [disp EXCEPT ![d].pc = "l67"]
    /\ UNCHANGED <<is_frozen, calls>>
    /\ UNCHANGED nonDisp

\* line 67: the answer call is made
TextAnswerCall(d) ==
    /\ disp[d].kind = "text"
    /\ disp[d].pc = "l67"
    /\ calls' = calls \cup {Call("answer", d)}
    /\ disp' = [disp EXCEPT ![d].pc = "answering"]
    /\ UNCHANGED <<is_frozen, sink>>
    /\ UNCHANGED nonDisp

\* Mutant of TextAnswerReturn: a failure is reported to on_response, as the
\* image path does.
TextAnswerReturnReportsError(d) ==
    /\ disp[d].kind = "text"
    /\ disp[d].pc = "answering"
    /\ \/ /\ disp' = [disp EXCEPT ![d].pc = "l70"]
          /\ UNCHANGED sink
       \/ /\ disp' = [disp EXCEPT ![d].pc = "failed"]
          /\ sink' = Append(sink, Event("error", d))
    /\ UNCHANGED <<is_frozen, calls>>
    /\ UNCHANGED nonDisp

\* lines 67 and 74-75: the answer call returns or raises
TextAnswerReturn(d) ==
    /\ disp[d].kind = "text"
    /\ disp[d].pc = "answering"
    /\ \E ok \in BOOLEAN :
          disp' = [disp EXCEPT ![d].pc = IF ok THEN "l70" ELSE "failed"]
    /\ UNCHANGED <<is_frozen, calls, sink>>
    /\ UNCHANGED nonDisp

\* lines 69-70
TextRespond(d) ==
    /\ disp[d].kind = "text"
    /\ disp[d].pc = "l70"
    /\ sink' = Append(sink, Event("response", d))
    /\ disp' = [disp EXCEPT ![d].pc = "done"]
    /\ UNCHANGED <<is_frozen, calls>>
    /\ UNCHANGED nonDisp

\* Mutant of ImageGate: while is_frozen is true the thread waits at the gate.
ImageGateWaits(d) ==
    /\ disp[d].kind = "image"
    /\ disp[d].pc = "gate"
    /\ ~is_frozen
    /\ disp' = [disp EXCEPT ![d].pc = "l96"]
    /\ UNCHANGED <<is_frozen, calls, sink>>
    /\ UNCHANGED nonDisp

\* lines 84-90 of _process_image: the freeze gate (self.vision_model is always set)
ImageGate(d) ==
    /\ disp[d].kind = "image"
    /\ disp[d].pc = "gate"
    /\ disp' = [disp EXCEPT ![d].pc = IF is_frozen THEN "skipped" ELSE "l96"]
    /\ UNCHANGED <<is_frozen, calls, sink>>
    /\ UNCHANGED nonDisp

\* line 96: Image.open returns or raises
ImageOpen(d) ==
    /\ disp[d].kind = "image"
    /\ disp[d].pc = "l96"
    /\ \E ok \in BOOLEAN :
          disp' = [disp EXCEPT ![d].pc = IF ok THEN "l120" ELSE "l134"]
    /\ UNCHANGED <<is_frozen, calls, sink>>
    /\ UNCHANGED nonDisp

\* Mutant of ImageVisionCall: is_frozen is looked at again before the call.
ImageVisionCallUnlessFrozen(d) ==
    /\ disp[d].kind = "image"
    /\ disp[d].pc = "l120"
    /\ IF is_frozen
         THEN /\ disp' = [disp EXCEPT ![d].pc = "skipped"]
              /\ UNCHANGED calls
         ELSE /\ calls' = calls \cup {Call("vision", d)}
              /\ disp' = [disp EXCEPT ![d].pc = "analysing"]
    /\ UNCHANGED <<is_frozen, sink>>
    /\ UNCHANGED nonDisp

\* line 120: the vision call is made
ImageVisionCall(d) ==
    /\ disp[d].kind = "image"
    /\ disp[d].pc = "l120"
    /\ calls' = calls \cup {Call("vision", d)}
    /\ disp' = [disp EXCEPT ![d].pc = "analysing"]
    /\ UNCHANGED <<is_frozen, sink>>
    /\ UNCHANGED nonDisp

\* Mutant of ImageVisionReturn: the exception of the vision call is not caught
\* and ends the process, and with it every daemon thread.
ImageVisionReturnUncaught(d) ==
    /\ disp[d].kind = "image"
    /\ disp[d].pc = "analysing"
    /\ \/ disp' = [disp EXCEPT ![d].pc = "l126"]
       \/ disp' = [e \in DOMAIN disp |-> [disp[e] EXCEPT !.pc = "failed"]]
    /\ UNCHANGED <<is_frozen, calls, sink>>
    /\ UNCHANGED nonDisp

\* lines 120 and 132-133: the vision call returns or raises
ImageVisionReturn(d) ==
    /\ disp[d].kind = "image"
    /\ disp[d].pc = "analysing"
    /\ \E ok \in BOOLEAN :
          disp' = [disp EXCEPT ![d].pc = IF ok THEN "l126" ELSE "l134"]
    /\ UNCHANGED <<is_frozen, calls, sink>>
    /\ UNCHANGED nonDisp

\* lines 125-126
ImageRespond(d) ==
    /\ disp[d].kind = "image"
    /\ disp[d].pc = "l126"
    /\ sink' = Append(sink, Event("image_response", d))
    /\ disp' = [disp EXCEPT ![d].pc = "done"]
    /\ UNCHANGED <<is_frozen, calls>>
    /\ UNCHANGED nonDisp

\* Mutant of ImageError: the exception is only logged, as the text path does.
ImageErrorSilent(d) ==
    /\ disp[d].kind = "image"
    /\ disp[d].pc = "l134"
    /\ disp' = [disp EXCEPT ![d].pc = "failed"]
    /\ UNCHANGED <<is_frozen, calls, sink>>
    /\ UNCHANGED nonDisp

\* lines 134-135: the error message goes to on_response
ImageError(d) ==
    /\ disp[d].kind = "image"
    /\ disp[d].pc = "l134"
    /\ sink' = Append(sink, Event("error", d))
    /\ disp' = [disp EXCEPT ![d].pc = "failed"]
    /\ UNCHANGED <<is_frozen, calls>>
    /\ UNCHANGED nonDisp

\* one step of the daemon thread of dispatch d
ThreadStep(d) ==
    \/ TextGate(d)
    \/ TextClassifyCall(d)
    \/ TextClassifyReturn(d)
    \/ TextClear(d)
    \/ TextAnswerCall(d)
    \/ TextAnswerReturn(d)
    \/ TextRespond(d)
    \/ ImageGate(d)
    \/ ImageOpen(d)
    \/ ImageVisionCall(d)
    \/ ImageVisionReturn(d)
    \/ ImageRespond(d)
    \/ ImageError(d)

DispNext ==
    \/ SetFrozen
    \/ ProcessTranscript
    \/ ProcessImage
    \/ \E d \in DOMAIN disp : TextGate(d)
    \/ \E d \in DOMAIN disp : TextClassifyCall(d)
    \/ \E d \in DOMAIN disp : TextClassifyReturn(d)
    \/ \E d \in DOMAIN disp : TextClear(d)
    \/ \E d \in DOMAIN disp : TextAnswerCall(d)
    \/ \E d \in DOMAIN disp : TextAnswerReturn(d)
    \/ \E d \in DOMAIN disp : TextRespond(d)
    \/ \E d \in DOMAIN disp : ImageGate(d)
    \/ \E d \in DOMAIN disp : ImageOpen(d)
    \/ \E d \in DOMAIN disp : ImageVisionCall(d)
    \/ \E d \in DOMAIN disp : ImageVisionReturn(d)
    \/ \E d \in DOMAIN disp : ImageRespond(d)
    \/ \E d \in DOMAIN disp : ImageError(d)

\* -------------------------------------------------------- GCPBucketListener
\* Bounds: uploads to the bucket, and failures of listing or download.
MaxUploads == 2
MaxFailures == 1

SecondsPerDay == 86400

\* None, where a time is expected
NoTime == -1

\* One '_'-separated part of a file name: a run of digits (v is its value) or
\* some other text.
Digits(v) == [num |-> TRUE, v |-> v]
Word == [num |-> FALSE, v |-> 0]

\* An object name: the directory prefix up to the last '/', the parts of the
\* base name between the underscores, and the extension that ends the last part.
ObjectName(dir, parts, ext) == [dir |-> dir, parts |-> parts, ext |-> ext]

\* The object names the bucket may hold, in the order list_blobs returns them:
\*   notes.png, shot_1_0.png, shot_2_0.PNG, shot_2_5.png, shot_2_5.txt,
\*   shots/shot_2_5.png
\* (the two numbers stand for the %Y%m%d day and the %H%M%S second of the day).
Universe ==
    << ObjectName("", <<Word>>, ".png"),
       ObjectName("", <<Word, Digits(1), Digits(0)>>, ".png"),
       ObjectName("", <<Word, Digits(2), Digits(0)>>, ".PNG"),
       ObjectName("", <<Word, Digits(2), Digits(5)>>, ".png"),
       ObjectName("", <<Word, Digits(2), Digits(5)>>, ".txt"),
       ObjectName("shots/", <<Word, Digits(2), Digits(5)>>, ".png") >>

Blobs == DOMAIN Universe

\* line 76: blob.name.lower().endswith('.png')
IsPng(name) == name.ext \in {".png", ".PNG", ".Png"}

\* line 87: image_name.split('/')[-1]
BaseName(name) == [name EXCEPT !.dir = ""]

ImageName(b) == BaseName(Universe[b])

\* lines 90-91: split('_')[1] and split('_')[2][:6] exist and strptime accepts them
ParseOk(image_name) ==
    /\ Len(image_name.parts) >= 3
    /\ image_name.parts[2].num
    /\ image_name.parts[3].num

\* lines 90-91: the time written in the name, read as UTC
CreatedTime(image_name) ==
    image_name.parts[2].v * SecondsPerDay + image_name.parts[3].v

\* line 102: os.path.join(self.download_dir, os.path.basename(image_name))
LocalPath(image_name) == [BaseName(image_name) EXCEPT !.dir = "downloaded_images/"]

\* lines 73, 76: the listed objects that are PNG files
PngBlobs == {b \in Blobs : store[b] > 0 /\ IsPng(Universe[b])}

\* Mutant of Newest: the sort is not reversed.
Oldest(pngs) ==
    CHOOSE b \in pngs : \A c \in pngs :
        store[c] > store[b] \/ (store[c] = store[b] /\ c >= b)

\* lines 82-83: sort by time_created, most recent first (the sort is stable,
\* so of two objects created at the same time the first listed stays first;
\* every listed object has a time_created, so the datetime.min default of the
\* sort key is never used)
Newest(pngs) ==
    CHOOSE b \in pngs : \A c \in pngs :
        store[c] < store[b] \/ (store[c] = store[b] /\ c >= b)

\* Mutant of Unseen: seen_files is not looked at.
UnseenAlways(image_name) == TRUE

\* line 93
Unseen(image_name) == image_name \notin seen_files

\* Mutant of TooOld: start_time is not looked at.
TooOldNever(created_time) == FALSE

\* lines 94-95
TooOld(created_time) == start_time # NoTime /\ created_time < start_time

\* lines 108-114
FileInfo(image_name) == [name |-> image_name, local_path |-> LocalPath(image_name)]

StartTimes == {NoTime, 2 * SecondsPerDay}
LoadedSets == {{}, {ImageName(3)}}

\* The listener before anything was uploaded, with nothing loaded and no cutoff.
WatchInit0 ==
    /\ store = [b \in Blobs |-> 0]
    /\ clock = 0
    /\ start_time = NoTime
    /\ loaded = {}
    /\ seen_files = {}
    /\ listen_pc = "running"
    /\ outcome = "none"
    /\ new_files = <<>>
    /\ downloads = <<>>
    /\ failures = 0
    /\ image_list = <<>>

\* __init__ (lines 19-51) and load_metadata (lines 53-65): start_time is set
\* or not, and seen_files is what the metadata file held
WatchInit ==
    /\ SegInit0
    /\ DispInit0
    /\ SessInit0
    /\ store = [b \in Blobs |-> 0]
    /\ clock = 0
    /\ start_time \in StartTimes
    /\ loaded \in LoadedSets
    /\ seen_files = loaded
    /\ listen_pc = "running"
    /\ outcome = "none"
    /\ new_files = <<>>
    /\ downloads = <<>>
    /\ failures = 0
    /\ image_list = <<>>

\* Somebody uploads an object (or overwrites it): time_created is the time of
\* the upload.
Upload ==
    /\ clock < MaxUploads
    /\ clock' = clock + 1
    /\ \E b \in Blobs : store' = [store EXCEPT ![b] = clock + 1]
    /\ UNCHANGED <<start_time, loaded, seen_files, listen_pc, outcome, new_files,
                   downloads, failures, image_list>>
    /\ UNCHANGED nonWatch

\* Mutant of HandleNewImage: while the gate is frozen the image is dropped
\* before it is listed and handed on.
HandleNewImageUnlessFrozen(local_path, file_info) ==
    IF is_frozen
      THEN UNCHANGED <<image_list, sink, disp>>
      ELSE /\ image_list' = <<file_info>> \o image_list
           /\ sink' = sink \o <<Event("new_image_item", 0), Event("status_update", 0)>>
           /\ disp' = Append(disp, NewThread("image", local_path))

\* src/app.py lines 97-123, _handle_new_image: the image is put first in
\* image_list, the client is told (new_image_item, status_update), and the
\* path is handed to process_image, which starts its thread.
HandleNewImage(local_path, file_info) ==
    /\ image_list' = <<file_info>> \o image_list
    /\ sink' = sink \o <<Event("new_image_item", 0), Event("status_update", 0)>>
    /\ disp' = Append(disp, NewThread("image", local_path))

\* What every return path of check_for_new_pngs that ingests nothing leaves alone.
NothingIngested ==
    /\ new_files' = <<>>
    /\ UNCHANGED <<store, clock, start_time, loaded, seen_files, image_list>>
    /\ UNCHANGED nonWatch

\* lines 71-73, 121-122: list_blobs raises
CheckListFails ==
    /\ listen_pc = "running"
    /\ failures < MaxFailures
    /\ failures' = failures + 1
    /\ outcome' = "error_list"
    /\ listen_pc' = "running"
    /\ NothingIngested
    /\ UNCHANGED downloads

\* lines 78-79
CheckNoPng ==
    /\ listen_pc = "running"
    /\ PngBlobs = {}
    /\ outcome' = "no_png"
    /\ listen_pc' = "running"
    /\ NothingIngested
    /\ UNCHANGED <<downloads, failures>>

\* lines 90-91, 121-122: the name of the newest PNG carries no time stamp
CheckParseFails ==
    /\ listen_pc = "running"
    /\ PngBlobs # {}
    /\ ~ParseOk(ImageName(Newest(PngBlobs)))
    /\ outcome' = "error_parse"
    /\ listen_pc' = "running"
    /\ NothingIngested
    /\ UNCHANGED <<downloads, failures>>

\* Mutant of CheckSeen: the object is downloaded again before seen_files is
\* looked at.
CheckSeenDownloadsAgain ==
    /\ listen_pc = "running"
    /\ PngBlobs # {}
    /\ ParseOk(ImageName(Newest(PngBlobs)))
    /\ ~Unseen(ImageName(Newest(PngBlobs)))
    /\ downloads' = Append(downloads, [blob |-> Newest(PngBlobs), ok |-> TRUE])
    /\ outcome' = "seen"
    /\ listen_pc' = "running"
    /\ NothingIngested
    /\ UNCHANGED failures

\* line 93: the newest PNG is in seen_files
CheckSeen ==
    /\ listen_pc = "running"
    /\ PngBlobs # {}
    /\ ParseOk(ImageName(Newest(PngBlobs)))
    /\ ~Unseen(ImageName(Newest(PngBlobs)))
    /\ outcome' = "seen"
    /\ listen_pc' = "running"
    /\ NothingIngested
    /\ UNCHANGED <<downloads, failures>>

\* lines 94-97: the newest PNG is older than start_time
CheckOld ==
    /\ listen_pc = "running"
    /\ PngBlobs # {}
    /\ ParseOk(ImageName(Newest(PngBlobs)))
    /\ Unseen(ImageName(Newest(PngBlobs)))
    /\ TooOld(CreatedTime(ImageName(Newest(PngBlobs))))
    /\ outcome' = "skip_old"
    /\ listen_pc' = "running"
    /\ NothingIngested
    /\ UNCHANGED <<downloads, failures>>

\* Mutant of CheckDownloadFails: the exception is not caught and ends listen.
CheckDownloadFailsExits ==
    /\ listen_pc = "running"
    /\ failures < MaxFailures
    /\ PngBlobs # {}
    /\ ParseOk(ImageName(Newest(PngBlobs)))
    /\ Unseen(ImageName(Newest(PngBlobs)))
    /\ ~TooOld(CreatedTime(ImageName(Newest(PngBlobs))))
    /\ downloads' = Append(downloads, [blob |-> Newest(PngBlobs), ok |-> FALSE])
    /\ failures' = failures + 1
    /\ outcome' = "error_download"
    /\ listen_pc' = "exited"
    /\ NothingIngested

\* Mutant of CheckDownloadFails: the name is recorded before the download.
CheckDownloadFailsMarksSeen ==
    /\ listen_pc = "running"
    /\ failures < MaxFailures
    /\ PngBlobs # {}
    /\ ParseOk(ImageName(Newest(PngBlobs)))
    /\ Unseen(ImageName(Newest(PngBlobs)))
    /\ ~TooOld(CreatedTime(ImageName(Newest(PngBlobs))))
    /\ downloads' = Append(downloads, [blob |-> Newest(PngBlobs), ok |-> FALSE])
    /\ seen_files' = seen_files \cup {ImageName(Newest(PngBlobs))}
    /\ failures' = failures + 1
    /\ outcome' = "error_download"
    /\ listen_pc' = "running"
    /\ new_files' = <<>>
    /\ UNCHANGED <<store, clock, start_time, loaded, image_list>>
    /\ UNCHANGED nonWatch

\* lines 99-103, 121-122: download_to_filename raises
CheckDownloadFails ==
    /\ listen_pc = "running"
    /\ failures < MaxFailures
    /\ PngBlobs # {}
    /\ ParseOk(ImageName(Newest(PngBlobs)))
    /\ Unseen(ImageName(Newest(PngBlobs)))
    /\ ~TooOld(CreatedTime(ImageName(Newest(PngBlobs))))
    /\ downloads' = Append(downloads, [blob |-> Newest(PngBlobs), ok |-> FALSE])
    /\ failures' = failures + 1
    /\ outcome' = "error_download"
    /\ listen_pc' = "running"
    /\ NothingIngested

\* Mutant of CheckIngest: some PNG that is not in seen_files is taken, the
\* newest or another.
CheckIngestAnyUnseen ==
    /\ listen_pc = "running"
    /\ \E b \in PngBlobs :
          LET image_name == ImageName(b) IN
          /\ ParseOk(image_name)
          /\ Unseen(image_name)
          /\ ~TooOld(CreatedTime(image_name))
          /\ downloads' = Append(downloads, [blob |-> b, ok |-> TRUE])
          /\ seen_files' = seen_files \cup {image_name}
          /\ new_files' = <<FileInfo(image_name)>>
          /\ HandleNewImage(LocalPath(image_name), FileInfo(image_name))
    /\ outcome' = "new_file"
    /\ listen_pc' = "running"
    /\ UNCHANGED <<store, clock, start_time, loaded, failures>>
    /\ UNCHANGED <<is_frozen, calls>>
    /\ UNCHANGED <<segVars, sessVars>>

\* lines 99-119: the newest PNG is downloaded, recorded and handed on
CheckIngest ==
    /\ listen_pc = "running"
    /\ PngBlobs # {}
    /\ LET image_name == ImageName(Newest(PngBlobs)) IN
          /\ ParseOk(image_name)
          /\ Unseen(image_name)
          /\ ~TooOld(CreatedTime(image_name))
          /\ downloads' = Append(downloads, [blob |-> Newest(PngBlobs), ok |-> TRUE])
          /\ seen_files' = seen_files \cup {image_name}
          /\ new_files' = <<FileInfo(image_name)>>
          /\ HandleNewImage(LocalPath(image_name), FileInfo(image_name))
    /\ outcome' = "new_file"
    /\ listen_pc' = "running"
    /\ UNCHANGED <<store, clock, start_time, loaded, failures>>
    /\ UNCHANGED <<is_frozen, calls>>
    /\ UNCHANGED <<segVars, sessVars>>

\* lines 136-145: one round of the loop of listen: check_for_new_pngs, the log
\* of what it returned, time.sleep(interval)
ListenCheck ==
    \/ CheckListFails
    \/ CheckNoPng
    \/ CheckParseFails
    \/ CheckSeen
    \/ CheckOld
    \/ CheckDownloadFails
    \/ CheckIngest

WatchNext ==
    \/ Upload
    \/ CheckListFails
    \/ CheckNoPng
    \/ CheckParseFails
    \/ CheckSeen
    \/ CheckOld
    \/ CheckDownloadFails
    \/ CheckIngest

\* line 145 and lines 146-147: KeyboardInterrupt is raised while listen sleeps
\* between two rounds; listen catches it and returns
ListenInterrupt ==
    /\ listen_pc = "running"
    /\ listen_pc' = "exited"
    /\ UNCHANGED <<store, clock, start_time, loaded, seen_files, outcome, new_files,
                   downloads, failures, image_list>>
    /\ UNCHANGED nonWatch

\* lines 99-119 and 146-147: KeyboardInterrupt is raised inside
\* check_for_new_pngs, after download_to_filename has returned (before line
\* 107) or after the name was recorded (before line 118); it is no Exception,
\* so line 121 does not catch it, and listen catches it and returns
CheckInterrupted ==
    /\ listen_pc = "running"
    /\ PngBlobs # {}
    /\ LET image_name == ImageName(Newest(PngBlobs)) IN
          /\ ParseOk(image_name)
          /\ Unseen(image_name)
          /\ ~TooOld(CreatedTime(image_name))
          /\ downloads' = Append(downloads, [blob |-> Newest(PngBlobs), ok |-> TRUE])
          /\ \E recorded \in BOOLEAN :
                seen_files' = IF recorded THEN seen_files \cup {image_name}
                                         ELSE seen_files
    /\ outcome' = "interrupted"
    /\ listen_pc' = "exited"
    /\ UNCHANGED <<store, clock, start_time, loaded, new_files, failures, image_list>>
    /\ UNCHANGED nonWatch

\* listen run in the foreground, where Ctrl-C reaches it
WatchStopNext ==
    \/ Upload
    \/ CheckListFails
    \/ CheckNoPng
    \/ CheckParseFails
    \/ CheckSeen
    \/ CheckOld
    \/ CheckDownloadFails
    \/ CheckIngest
    \/ ListenInterrupt
    \/ CheckInterrupted

\* ------------------------------------------------------ the streaming session
\* Bounds: recording threads started, Turn events delivered while two sessions
\* are followed, and Turn events delivered while the stop of one session is
\* followed.
MaxSessions == 2
MaxSessTurns == 2
MaxStopTurns == 2

\* what neither stop_streaming nor a recording thread touches: the other
\* components, the configuration, and what the latest command returned
nonSess == <<dispVars, watchVars, audio_handler, cmd_result>>

\* the other components
nonApp == <<segVars, dispVars, watchVars>>

Status(msg, by) == [msg |-> msg, by |-> by]

\* the recording thread of app.py line 164: it enters start_streaming
NewSession == [pc |-> "l31", obj |-> 0, raising |-> FALSE]

\* disconnect(terminate=True) on client c returns, and the session is closed,
\* or raises, and the session is left as it was
Disconnected(c, ok) == IF ok THEN [conn EXCEPT ![c] = "closed"] ELSE conn

\* app.py lines 141-168, start_recording when is_recording is false: a client
\* left over is disconnected and forgotten, the flag is set, the client is
\* told, the recording thread is started.
StartRecording ==
    /\ cmd_pc = "idle"
    /\ audio_handler
    /\ ~is_recording
    /\ Len(sess) < MaxSessions
    /\ IF client # 0
         THEN \E ok \in BOOLEAN :
                /\ conn' = Append(Disconnected(client, ok), "new")
                /\ disconnects' = disconnects \cup {client}
         ELSE /\ conn' = Append(conn, "new")
              /\ UNCHANGED disconnects
    /\ client' = 0
    /\ is_recording' = TRUE
    /\ status' = status \cup {Status("Recording", 0)}
    /\ sess' = Append(sess, NewSession)
    /\ cmd_result' = Returned("start_recording", TRUE, "")
    /\ UNCHANGED <<cmd_pc, audio_handler>>
    /\ UNCHANGED nonApp

\* app.py lines 143-144: start_recording without an audio handler
StartRecordingNoHandler ==
    /\ cmd_pc = "idle"
    /\ ~audio_handler
    /\ cmd_result' = Returned("start_recording", FALSE, "Audio handler not initialized")
    /\ UNCHANGED <<client, is_recording, sess, conn, cmd_pc, disconnects, status,
                   audio_handler>>
    /\ UNCHANGED nonApp

\* Mutant of StartRecordingRefused: the test of line 146 is missing, and
\* start_recording goes on to lines 149-168.
StartRecordingAgain ==
    /\ cmd_pc = "idle"
    /\ audio_handler
    /\ is_recording
    /\ Len(sess) < MaxSessions
    /\ IF client # 0
         THEN \E ok \in BOOLEAN :
                /\ conn' = Append(Disconnected(client, ok), "new")
                /\ disconnects' = disconnects \cup {client}
         ELSE /\ conn' = Append(conn, "new")
              /\ UNCHANGED disconnects
    /\ client' = 0
    /\ status' = status \cup {Status("Recording", 0)}
    /\ sess' = Append(sess, NewSession)
    /\ cmd_result' = Returned("start_recording", TRUE, "")
    /\ UNCHANGED <<is_recording, cmd_pc, audio_handler>>
    /\ UNCHANGED nonApp

\* app.py lines 146-147: start_recording while is_recording is set
StartRecordingRefused ==
    /\ cmd_pc = "idle"
    /\ audio_handler
    /\ is_recording
    /\ cmd_result' = Returned("start_recording", FALSE, "Already recording")
    /\ UNCHANGED <<client, is_recording, sess, conn, cmd_pc, disconnects, status,
                   audio_handler>>
    /\ UNCHANGED nonApp

\* app.py lines 183-184: stop_recording without an audio handler
StopRecordingNoHandler ==
    /\ cmd_pc = "idle"
    /\ ~audio_handler
    /\ cmd_result' = Returned("stop_recording", FALSE, "Audio handler not initialized")
    /\ UNCHANGED <<client, is_recording, sess, conn, cmd_pc, disconnects, status,
                   audio_handler>>
    /\ UNCHANGED nonApp

\* app.py line 186 and audio_handler.py line 96: stop_recording clears the flag
\* and enters stop_streaming
StopRecording ==
    /\ cmd_pc = "idle"
    /\ audio_handler
    /\ is_recording' = FALSE
    /\ cmd_pc' = "l98"
    /\ UNCHANGED <<client, sess, conn, disconnects, status>>
    /\ UNCHANGED <<segVars, nonSess>>

\* line 98
StopTimerCheck ==
    /\ cmd_pc = "l98"
    /\ cmd_pc' = IF transcript_timer # 0 THEN "l99" ELSE "l102"
    /\ UNCHANGED <<client, is_recording, sess, conn, disconnects, status>>
    /\ UNCHANGED <<segVars, nonSess>>

\* line 99: on_turn never sets transcript_timer back to None, so the timer
\* read here is the one of line 98 or a later one
StopTimerCancel ==
    /\ cmd_pc = "l99"
    /\ timers' = TimerCancel(timers, transcript_timer)
    /\ cmd_pc' = "l100"
    /\ UNCHANGED <<client, is_recording, sess, conn, disconnects, status>>
    /\ UNCHANGED <<current_transcript, last_processed_transcript, transcript_timer,
                   turn_pc, turn_event, turns, emitted>>
    /\ UNCHANGED nonSess

\* line 100
StopTimerClear ==
    /\ cmd_pc = "l100"
    /\ transcript_timer' = 0
    /\ cmd_pc' = "l102"
    /\ UNCHANGED <<client, is_recording, sess, conn, disconnects, status>>
    /\ UNCHANGED <<current_transcript, last_processed_transcript, timers,
                   turn_pc, turn_event, turns, emitted>>
    /\ UNCHANGED nonSess

\* line 102
StopClientCheck ==
    /\ cmd_pc = "l102"
    /\ cmd_pc' = IF client # 0 THEN "l104" ELSE "l189"
    /\ UNCHANGED <<client, is_recording, sess, conn, disconnects, status>>
    /\ UNCHANGED <<segVars, nonSess>>

\* lines 103-106: self.client is read again; disconnect returns or raises, and
\* so does the attribute access when a recording thread has set client to
\* None meanwhile; every exception is caught
StopDisconnect ==
    /\ cmd_pc = "l104"
    /\ IF client # 0
         THEN \E ok \in BOOLEAN :
                /\ conn' = Disconnected(client, ok)
                /\ disconnects' = disconnects \cup {client}
         ELSE UNCHANGED <<conn, disconnects>>
    /\ cmd_pc' = "l108"
    /\ UNCHANGED <<client, is_recording, sess, status>>
    /\ UNCHANGED <<segVars, nonSess>>

\* lines 107-108
StopClientClear ==
    /\ cmd_pc = "l108"
    /\ client' = 0
    /\ cmd_pc' = "l189"
    /\ UNCHANGED <<is_recording, sess, conn, disconnects, status>>
    /\ UNCHANGED <<segVars, nonSess>>

\* app.py lines 189-193: stop_streaming has returned; the join gives up after
\* 2 s; the client is told. Before the first start_recording recording_thread
\* is None (line 36), so is_alive() of line 189 raises AttributeError.
StopRecordingReturn ==
    /\ cmd_pc = "l189"
    /\ IF sess = <<>>
         THEN /\ cmd_result' = RaisedIn("stop_recording", "AttributeError")
              /\ UNCHANGED status
         ELSE /\ status' = status \cup {Status("Recording stopped", 0)}
              /\ cmd_result' = Returned("stop_recording", TRUE, "")
    /\ cmd_pc' = "idle"
    /\ UNCHANGED <<client, is_recording, sess, conn, disconnects, audio_handler>>
    /\ UNCHANGED nonApp

\* lines 31-65: the StreamingClient is created and kept in self.client
SessCreate(s) ==
    /\ sess[s].pc = "l31"
    /\ client' = s
    /\ sess' = [sess EXCEPT ![s].pc = "l67"]
    /\ UNCHANGED <<is_recording, conn, cmd_pc, disconnects, status>>
    /\ UNCHANGED <<segVars, nonSess>>

\* lines 82-85: the exception is reported through on_status_update and raised
\* again; the finally clause runs next
Raised(s) ==
    /\ status' = status \cup {Status("Error starting recording", s)}
    /\ sess' = [sess EXCEPT ![s].pc = "l87", ![s].raising = TRUE]

\* lines 67-76: self.client.connect returns or raises; the attribute access
\* raises when self.client is None by now
SessConnect(s) ==
    /\ sess[s].pc = "l67"
    /\ \/ /\ client # 0
          /\ conn' = [conn EXCEPT ![client] = "open"]
          /\ sess' = [sess EXCEPT ![s].pc = "l78"]
          /\ UNCHANGED status
       \/ /\ Raised(s)
          /\ UNCHANGED conn
    /\ UNCHANGED <<client, is_recording, cmd_pc, disconnects>>
    /\ UNCHANGED <<segVars, nonSess>>

\* lines 78-80: self.client.stream is entered and blocks; the attribute access
\* raises when self.client is None by now
SessStream(s) ==
    /\ sess[s].pc = "l78"
    /\ IF client # 0
         THEN /\ sess' = [sess EXCEPT ![s].pc = "streaming", ![s].obj = client]
              /\ UNCHANGED status
         ELSE Raised(s)
    /\ UNCHANGED <<client, is_recording, conn, cmd_pc, disconnects>>
    /\ UNCHANGED <<segVars, nonSess>>

\* stream returns: the session was closed by a disconnect, or the service
\* ends it
SessStreamReturns(s) ==
    /\ sess[s].pc = "streaming"
    /\ conn' = [conn EXCEPT ![sess[s].obj] = "closed"]
    /\ sess' = [sess EXCEPT ![s].pc = "l87"]
    /\ UNCHANGED <<client, is_recording, cmd_pc, disconnects, status>>
    /\ UNCHANGED <<segVars, nonSess>>

\* stream raises
SessStreamRaises(s) ==
    /\ sess[s].pc = "streaming"
    /\ Raised(s)
    /\ UNCHANGED <<client, is_recording, conn, cmd_pc, disconnects>>
    /\ UNCHANGED <<segVars, nonSess>>

\* line 87
SessFinallyCheck(s) ==
    /\ sess[s].pc = "l87"
    /\ sess' = [sess EXCEPT ![s].pc = IF client # 0 THEN "l89" ELSE "l174"]
    /\ UNCHANGED <<client, is_recording, conn, cmd_pc, disconnects, status>>
    /\ UNCHANGED <<segVars, nonSess>>

\* lines 88-91: self.client is read again; disconnect returns or raises, and
\* every exception is caught
SessDisconnect(s) ==
    /\ sess[s].pc = "l89"
    /\ IF client # 0
         THEN \E ok \in BOOLEAN :
                /\ conn' = Disconnected(client, ok)
                /\ disconnects' = disconnects \cup {client}
         ELSE UNCHANGED <<conn, disconnects>>
    /\ sess' = [sess EXCEPT ![s].pc = "l93"]
    /\ UNCHANGED <<client, is_recording, cmd_pc, status>>
    /\ UNCHANGED <<segVars, nonSess>>

\* lines 92-93
SessClientClear(s) ==
    /\ sess[s].pc = "l93"
    /\ client' = 0
    /\ sess' = [sess EXCEPT ![s].pc = "l174"]
    /\ UNCHANGED <<is_recording, conn, cmd_pc, disconnects, status>>
    /\ UNCHANGED <<segVars, nonSess>>

\* app.py lines 172-179: start_streaming has left; _run_streaming tells the
\* client of the exception, if one propagated, clears is_recording if it is
\* set and tells the client, and the recording thread ends
RunStreamingExit(s) ==
    /\ sess[s].pc = "l174"
    /\ is_recording' = FALSE
    /\ status' = status
          \cup (IF sess[s].raising THEN {Status("Error starting recording", 0)} ELSE {})
          \cup (IF is_recording THEN {Status("Recording stopped unexpectedly", 0)} ELSE {})
    /\ sess' = [sess EXCEPT ![s].pc = "done"]
    /\ UNCHANGED <<client, conn, cmd_pc, disconnects>>
    /\ UNCHANGED <<segVars, nonSess>>

\* A Turn event is delivered while a recording thread is inside stream() and
\* the session it streams to is open.
Streaming == \E s \in DOMAIN sess : sess[s].pc = "streaming" /\ conn[sess[s].obj] = "open"

\* the event.transcript values delivered while the sessions are followed
SessTranscripts == {<<"a">>}

\* Two sessions: every Turn event is an end of turn, so no timer is created.
SessTurnBegin ==
    /\ Streaming
    /\ turns < MaxSessTurns
    /\ TurnBegin
    /\ turn_event'.transcript \in SessTranscripts
    /\ turn_event'.end_of_turn

SessNext ==
    \/ StartRecording
    \/ StartRecordingRefused
    \/ StopRecording
    \/ StopTimerCheck
    \/ StopClientCheck
    \/ StopDisconnect
    \/ StopClientClear
    \/ StopRecordingReturn
    \/ \E s \in DOMAIN sess : SessCreate(s)
    \/ \E s \in DOMAIN sess : SessConnect(s)
    \/ \E s \in DOMAIN sess : SessStream(s)
    \/ \E s \in DOMAIN sess : SessStreamReturns(s)
    \/ \E s \in DOMAIN sess : SessStreamRaises(s)
    \/ \E s \in DOMAIN sess : SessFinallyCheck(s)
    \/ \E s \in DOMAIN sess : SessDisconnect(s)
    \/ \E s \in DOMAIN sess : SessClientClear(s)
    \/ \E s \in DOMAIN sess : RunStreamingExit(s)
    \/ SessTurnBegin
    \/ OnTurnStrip
    \/ OnTurnTimerCheck
    \/ OnTurnBranch
    \/ OnTurnCheck
    \/ OnTurnEmit
    \/ OnTurnWrite

\* The commands alone: start_recording and stop_recording with and without an
\* audio handler, and the recording threads; no Turn event is delivered.
\* Bound: recording threads started while the commands are followed.
MaxCmdSessions == 1

CmdStartRecording ==
    /\ Len(sess) < MaxCmdSessions
    /\ StartRecording

CmdNext ==
    \/ CmdStartRecording
    \/ StartRecordingNoHandler
    \/ StartRecordingRefused
    \/ StopRecording
    \/ StopRecordingNoHandler
    \/ StopTimerCheck
    \/ StopClientCheck
    \/ StopDisconnect
    \/ StopClientClear
    \/ StopRecordingReturn
    \/ \E s \in DOMAIN sess : SessCreate(s)
    \/ \E s \in DOMAIN sess : SessConnect(s)
    \/ \E s \in DOMAIN sess : SessStream(s)
    \/ \E s \in DOMAIN sess : SessStreamReturns(s)
    \/ \E s \in DOMAIN sess : SessStreamRaises(s)
    \/ \E s \in DOMAIN sess : SessFinallyCheck(s)
    \/ \E s \in DOMAIN sess : SessDisconnect(s)
    \/ \E s \in DOMAIN sess : SessClientClear(s)
    \/ \E s \in DOMAIN sess : RunStreamingExit(s)

\* The first session only, with its debounce timers.
StartFirstRecording == sess = <<>> /\ StartRecording

StopTurnBegin ==
    /\ Streaming
    /\ turns < MaxStopTurns
    /\ TurnBegin
    /\ turn_event'.transcript \in SessTranscripts

StopNext ==
    \/ StartFirstRecording
    \/ StopRecording
    \/ StopTimerCheck
    \/ StopTimerCancel
    \/ StopTimerClear
    \/ StopClientCheck
    \/ StopDisconnect
    \/ StopClientClear
    \/ StopRecordingReturn
    \/ \E s \in DOMAIN sess : SessCreate(s)
    \/ \E s \in DOMAIN sess : SessConnect(s)
    \/ \E s \in DOMAIN sess : SessStream(s)
    \/ \E s \in DOMAIN sess : SessStreamReturns(s)
    \/ \E s \in DOMAIN sess : SessStreamRaises(s)
    \/ \E s \in DOMAIN sess : SessFinallyCheck(s)
    \/ \E s \in DOMAIN sess : SessDisconnect(s)
    \/ \E s \in DOMAIN sess : SessClientClear(s)
    \/ \E s \in DOMAIN sess : RunStreamingExit(s)
    \/ StopTurnBegin
    \/ OnTurnStrip
    \/ OnTurnTimerCheck
    \/ OnTurnCancel
    \/ OnTurnBranch
    \/ OnTurnSchedule
    \/ OnTurnCheck
    \/ OnTurnEmit
    \/ OnTurnWrite
    \/ TimerFire
    \/ TimerCheckDelayed
    \/ TimerCheck
    \/ TimerEmit
    \/ TimerWrite

\* ------------------------------------------------------------- the pipeline
\* WebTranscriptionApp wires the three components: on_transcript_update is
\* _handle_transcript, on_new_image is _handle_new_image.
\* Bounds: Turn events delivered, and objects uploaded, while the whole
\* pipeline is followed.
MaxPipeTurns == 1
MaxPipeUploads == 1

\* Mutant of HandleTranscript: the transcript is processed on the caller's
\* thread, which waits while a service call of an earlier dispatch is open.
HandleTranscriptInline(transcript) ==
    /\ \A d \in DOMAIN disp : disp[d].pc \notin {"classifying", "answering", "analysing"}
    /\ sink' = Append(sink, Event("transcription", 0))
    /\ disp' = Append(disp, NewThread("text", transcript))

\* src/app.py lines 72-76, _handle_transcript: the text is sent to the client
\* and handed to process_transcript, which starts its thread and returns
\* (ai_handler.py lines 77-79)
HandleTranscript(transcript) ==
    /\ sink' = Append(sink, Event("transcription", 0))
    /\ disp' = Append(disp, NewThread("text", transcript))

\* The streaming session delivers a Turn event to on_turn; while the whole
\* pipeline is followed every Turn event is an end of turn, so no timer is
\* created.
PipeTurnBegin ==
    /\ turns < MaxPipeTurns
    /\ TurnBegin
    /\ turn_event'.transcript \in SessTranscripts
    /\ turn_event'.end_of_turn

\* Somebody uploads an object while the whole pipeline is followed.
PipeUpload ==
    /\ clock < MaxPipeUploads
    /\ Upload

\* lines 112-113 of audio_handler.py, called from on_turn, with
\* on_transcript_update set to _handle_transcript (app.py line 61)
PipeOnTurnEmit ==
    /\ turn_pc = "l113"
    /\ emitted' = Append(emitted, current_transcript)
    /\ HandleTranscript(current_transcript)
    /\ turn_pc' = "l114"
    /\ UNCHANGED <<current_transcript, last_processed_transcript, transcript_timer,
                   timers, turn_event, turns>>
    /\ UNCHANGED <<is_frozen, calls>>
    /\ UNCHANGED <<watchVars, sessVars>>

\* one step of the streaming thread
PipeSegStep ==
    \/ PipeTurnBegin
    \/ OnTurnStrip
    \/ OnTurnTimerCheck
    \/ OnTurnBranch
    \/ OnTurnCheck
    \/ PipeOnTurnEmit
    \/ OnTurnWrite

PipeNext ==
    \/ SetFrozen
    \/ PipeTurnBegin
    \/ OnTurnStrip
    \/ OnTurnTimerCheck
    \/ OnTurnBranch
    \/ OnTurnCheck
    \/ PipeOnTurnEmit
    \/ OnTurnWrite
    \/ PipeUpload
    \/ CheckListFails
    \/ CheckNoPng
    \/ CheckParseFails
    \/ CheckSeen
    \/ CheckOld
    \/ CheckDownloadFails
    \/ CheckIngest
    \/ \E d \in DOMAIN disp : TextGate(d)
    \/ \E d \in DOMAIN disp : TextClassifyCall(d)
    \/ \E d \in DOMAIN disp : TextClassifyReturn(d)
    \/ \E d \in DOMAIN disp : TextClear(d)
    \/ \E d \in DOMAIN disp : TextAnswerCall(d)
    \/ \E d \in DOMAIN disp : TextAnswerReturn(d)
    \/ \E d \in DOMAIN disp : TextRespond(d)
    \/ \E d \in DOMAIN disp : ImageGate(d)
    \/ \E d \in DOMAIN disp : ImageOpen(d)
    \/ \E d \in DOMAIN disp : ImageVisionCall(d)
    \/ \E d \in DOMAIN disp : ImageVisionReturn(d)
    \/ \E d \in DOMAIN disp : ImageRespond(d)
    \/ \E d \in DOMAIN disp : ImageError(d)

\* The pipeline as app.py builds it: nothing is loaded as seen, the cutoff is
\* set or not.
PipeInit ==
    /\ SegInit0
    /\ DispInit0
    /\ SessInit0
    /\ store = [b \in Blobs |-> 0]
    /\ clock = 0
    /\ start_time \in StartTimes
    /\ loaded = {}
    /\ seen_files = loaded
    /\ listen_pc = "running"
    /\ outcome = "none"
    /\ new_files = <<>>
    /\ downloads = <<>>
    /\ failures = 0
    /\ image_list = <<>>

\* The whole pipeline: the segmenter and the watcher produce, the dispatcher
\* threads run, the operator freezes and unfreezes.
PipeSpec == PipeInit /\ [][PipeNext]_vars

\* The pipeline with every started dispatch thread scheduled, and every
\* service call returning or raising.
PipeFairSpec ==
    PipeSpec /\ \A d \in 1..(MaxPipeTurns + MaxPipeUploads) :
                    WF_vars(d \in DOMAIN disp /\ ThreadStep(d))

\* --------------------------------------------------------- the conversation
\* The streaming thread and the text dispatches together, to follow several
\* utterances from on_turn to the client.
\* Bound: Turn events delivered while the conversation is followed.
MaxTalkTurns == 2

\* the utterances of the conversation
TalkTranscripts == {<<"a">>, <<"b">>}

\* The streaming session delivers a Turn event to on_turn; while the
\* conversation is followed every Turn event is an end of turn, so no timer is
\* created.
TalkTurnBegin ==
    /\ turns < MaxTalkTurns
    /\ TurnBegin
    /\ turn_event'.transcript \in TalkTranscripts
    /\ turn_event'.end_of_turn

TalkNext ==
    \/ SetFrozen
    \/ TalkTurnBegin
    \/ OnTurnStrip
    \/ OnTurnTimerCheck
    \/ OnTurnBranch
    \/ OnTurnCheck
    \/ PipeOnTurnEmit
    \/ OnTurnWrite
    \/ \E d \in DOMAIN disp : TextGate(d)
    \/ \E d \in DOMAIN disp : TextClassifyCall(d)
    \/ \E d \in DOMAIN disp : TextClassifyReturn(d)
    \/ \E d \in DOMAIN disp : TextClear(d)
    \/ \E d \in DOMAIN disp : TextAnswerCall(d)
    \/ \E d \in DOMAIN disp : TextAnswerReturn(d)
    \/ \E d \in DOMAIN disp : TextRespond(d)

TalkInit == SegInit0 /\ DispInit0 /\ WatchInit0 /\ SessInit0

\* The conversation: on_turn hands each utterance to _handle_transcript, the
\* dispatch threads run, the operator freezes and unfreezes.
TalkSpec == TalkInit /\ [][TalkNext]_vars

\* ---------------------------------------------------------- specifications
\* Each specification but PipeSpec and TalkSpec runs one component; the
\* variables of the others keep their initial values.

\* The segmenter alone: the streaming thread and the timer threads.
SegInit == SegInit0 /\ DispInit0 /\ WatchInit0 /\ SessInit0

SegSpec == SegInit /\ [][SegNext]_vars

\* The dispatcher alone: process_transcript and process_image are called by
\* the producers at any time, set_frozen by the operator.
DispInit == SegInit0 /\ DispInit0 /\ WatchInit0 /\ SessInit0

DispSpec == DispInit /\ [][DispNext]_vars

\* Every started thread is scheduled, and every service call returns or raises.
DispFairSpec ==
    DispSpec /\ \A d \in 1..MaxDispatch : WF_vars(d \in DOMAIN disp /\ ThreadStep(d))

\* The watcher alone: objects are uploaded to the bucket while the listen loop
\* polls it.
WatchSpec == WatchInit /\ [][WatchNext]_vars

\* The listener thread keeps being scheduled; listing and download fail only
\* finitely often (MaxFailures).
WatchFairSpec == WatchSpec /\ WF_vars(ListenCheck)

\* The watcher run in the foreground: as WatchSpec, and the user may interrupt
\* listen with Ctrl-C.
WatchStopSpec == WatchInit /\ [][WatchStopNext]_vars

\* The streaming sessions: the operator starts, stops and restarts recording
\* while the recording threads and the streaming thread run.
SessInit == SegInit0 /\ DispInit0 /\ WatchInit0 /\ SessInit0

SessSpec == SessInit /\ [][SessNext]_vars

\* app.py lines 34-41: the application with ASSEMBLYAI_API_KEY set or not set
CmdInit ==
    /\ SegInit0 /\ DispInit0 /\ WatchInit0
    /\ client = 0
    /\ is_recording = FALSE
    /\ sess = <<>>
    /\ conn = <<>>
    /\ cmd_pc = "idle"
    /\ disconnects = {}
    /\ status = {}
    /\ audio_handler \in BOOLEAN
    /\ cmd_result = NoResult

\* The commands of the operator, with an audio handler configured or not, and
\* the recording threads they start.
CmdSpec == CmdInit /\ [][CmdNext]_vars

\* The stop of a session: the operator stops the first recording while its
\* recording thread, the streaming thread and the timer threads run.
StopSpec == SessInit /\ [][StopNext]_vars

\* ------------------------------------------------------------------ claims

\* C1 (debounce idempotence): two consecutive finalizations of the same text
\* call on_transcript_update once for it, so no text is ever emitted twice in
\* a row.
C1_NoRepeatedEmission ==
    \A i \in 1..(Len(emitted) - 1) : emitted[i] # emitted[i + 1]

\* C2 (single-timer invariant): at most one debounce timer is pending (armed,
\* not cancelled, not fired) in every state, and the pending one is the timer
\* transcript_timer refers to.
C2_SingleTimer ==
    /\ Cardinality({t \in DOMAIN timers : timers[t] = "armed"}) <= 1
    /\ \A t \in DOMAIN timers : timers[t] = "armed" => transcript_timer = t

\* C2 witness: a second update has superseded the timer of the first one.
C2_Witness ==
    /\ Len(timers) >= 2
    /\ timers[1] = "cancelled"
    /\ timers[2] = "armed"

\* The service calls made, and the callbacks invoked, by dispatch d.
CallsOf(d) == {c \in calls : c.id = d}
EventsOf(d) == {i \in DOMAIN sink : sink[i].id = d}
EventsOfKind(d, ev) == {i \in DOMAIN sink : sink[i] = Event(ev, d)}

\* A dispatch that reads is_frozen = TRUE at its gate returns at once: that
\* step makes no service call and invokes no callback.
FrozenGateStep ==
    \A d \in DOMAIN disp :
        (is_frozen /\ disp[d].pc = "gate" /\ disp'[d].pc # "gate")
            => (disp'[d].pc = "skipped" /\ calls' = calls /\ sink' = sink)

\* C3 (freeze gate): a text or image dispatch whose gate check finds is_frozen
\* true returns without a classification, answer or vision call and without
\* any callback to the sink, and it never makes one later.
C3_FreezeGate ==
    /\ [][FrozenGateStep]_vars
    /\ [](\A d \in DOMAIN disp :
            disp[d].pc = "skipped" => (CallsOf(d) = {} /\ EventsOf(d) = {}))

\* C3 witness: a text dispatch and an image dispatch were both stopped at the gate.
C3_Witness ==
    /\ is_frozen
    /\ \E d, e \in DOMAIN disp :
          /\ disp[d].kind = "text" /\ disp[d].pc = "skipped"
          /\ disp[e].kind = "image" /\ disp[e].pc = "skipped"

PassedGate(d) == d \in DOMAIN disp /\ disp[d].pc \notin {"gate", "skipped"}

\* Dispatch d ran to its end and emitted what its outcome calls for.
Completed(d) ==
    /\ d \in DOMAIN disp
    /\ disp[d].pc \in {"done", "failed"}
    /\ disp[d].kind = "image" =>
          Cardinality(EventsOf(d)) = 1
    /\ (disp[d].kind = "image" /\ disp[d].pc = "done") =>
          Cardinality(EventsOfKind(d, "image_response")) = 1
    /\ (disp[d].kind = "text" /\ disp[d].pc = "done"
            /\ Contains(disp[d].classification, Yes)) =>
          /\ Cardinality(EventsOfKind(d, "clear")) = 1
          /\ Cardinality(EventsOfKind(d, "response")) = 1

\* C4 (freeze does not cancel in-flight work): a dispatch that has passed its
\* gate runs to its end and emits its result whatever set_frozen does
\* meanwhile; set_frozen itself touches no dispatch, and while is_frozen is
\* true no dispatch gets through the gate.
C4_FreezeKeepsInFlight ==
    /\ \A d \in 1..MaxDispatch : PassedGate(d) ~> Completed(d)
    /\ [][(is_frozen' # is_frozen) =>
            (disp' = disp /\ calls' = calls /\ sink' = sink)]_vars
    /\ [][FrozenGateStep]_vars

\* C4 witness: the gate is frozen while an image dispatch that passed it
\* earlier is waiting for the vision service, and a later dispatch was skipped.
C4_Witness ==
    /\ is_frozen
    /\ \E d, e \in DOMAIN disp :
          /\ d < e
          /\ disp[d].kind = "image" /\ disp[d].pc = "analysing"
          /\ disp[e].pc = "skipped"

\* C5 (classification gate): a text dispatch whose classifier response does
\* not contain "Yes" makes no answer call and invokes neither
\* on_clear_transcription nor on_response.
C5_ClassificationGate ==
    \A d \in DOMAIN disp :
        (disp[d].kind = "text" /\ disp[d].classification # None
            /\ ~Contains(disp[d].classification, Yes))
        => /\ Call("answer", d) \notin calls
           /\ EventsOf(d) = {}
           /\ disp[d].pc = "done"

\* C5 witness: the classifier answered "yes" in lower case and the dispatch ended.
C5_Witness ==
    \E d \in DOMAIN disp :
        /\ disp[d].classification = <<"y", "e", "s">>
        /\ disp[d].pc = "done"

\* Object b is the PNG file of the bucket that was created last.
LatestPng(b) ==
    /\ store[b] > 0
    /\ Universe[b].ext \in {".png", ".PNG", ".Png"}
    /\ \A c \in Blobs :
          (store[c] > 0 /\ Universe[c].ext \in {".png", ".PNG", ".Png"})
              => store[c] <= store[b]

\* The base names of the objects the bucket may hold.
ImageNames == {ImageName(b) : b \in Blobs}

\* How often on_new_image was called for image_name.
Emissions(image_name) ==
    Cardinality({i \in DOMAIN image_list : image_list[i].name = image_name})

\* How often download_to_filename was called for an object named image_name.
DownloadCalls(image_name) ==
    Cardinality({i \in DOMAIN downloads : ImageName(downloads[i].blob) = image_name})

\* image_name was downloaded and handed to the dispatcher.
Handed(image_name) ==
    /\ \E i \in DOMAIN downloads :
          downloads[i].ok /\ ImageName(downloads[i].blob) = image_name
    /\ Emissions(image_name) >= 1
    /\ \E d \in DOMAIN disp :
          disp[d].kind = "image" /\ disp[d].arg = LocalPath(image_name)

\* C6 (dedup invariant): once a name is in seen_files no later polling cycle
\* downloads the object or calls on_new_image for it; seen_files only grows,
\* and every name is emitted at most once.
C6_Dedup ==
    /\ [][\A n \in seen_files :
            /\ n \in seen_files'
            /\ Emissions(n)' = Emissions(n)
            /\ DownloadCalls(n)' = DownloadCalls(n)]_vars
    /\ [](\A n \in ImageNames : Emissions(n) <= 1)

\* C6 witness: a cycle found the newest PNG, ingested earlier, in seen_files.
C6_Witness ==
    /\ outcome = "seen"
    /\ \E b \in Blobs : LatestPng(b) /\ Emissions(ImageName(b)) = 1

\* C7 (cutoff filter): with start_time configured, an object whose time stamp
\* is strictly earlier than start_time is never downloaded, never emitted,
\* never handed to the dispatcher and never added to seen_files.
C7_CutoffFilter ==
    start_time # NoTime =>
        \A n \in ImageNames :
            (ParseOk(n) /\ CreatedTime(n) < start_time)
            => /\ DownloadCalls(n) = 0
               /\ Emissions(n) = 0
               /\ n \notin seen_files \ loaded
               /\ \A d \in DOMAIN disp :
                     disp[d].kind = "image" => disp[d].arg # LocalPath(n)

\* C7 witness: a cycle has skipped the newest PNG as older than start_time.
C7_Witness ==
    /\ start_time # NoTime
    /\ outcome = "skip_old"
    /\ \E b \in Blobs : LatestPng(b) /\ CreatedTime(ImageName(b)) < start_time

NewObject(b) ==
    /\ store[b] > 0
    /\ IsPng(Universe[b])
    /\ ParseOk(ImageName(b))
    /\ ~(start_time # NoTime /\ CreatedTime(ImageName(b)) < start_time)
    /\ ImageName(b) \notin loaded

\* The objects that can be new image objects at all: PNG files with a time
\* stamp in their name.
StampedPngs == {b \in Blobs : IsPng(Universe[b]) /\ ParseOk(ImageName(b))}

\* C9 as claimed: every new image object is eventually emitted exactly once,
\* however many objects arrive between two polling cycles.
C9_EveryNewImageEmitted ==
    \A b \in StampedPngs : [](NewObject(b) => <>(Emissions(ImageName(b)) = 1))

\* C9 as amended: a new image object is emitted exactly once if it stays the
\* newest PNG of the bucket until a polling cycle ingests it; only the newest
\* PNG of a cycle is ever emitted, and no name is emitted twice.
C9_NewestImageEmitted ==
    /\ \A b \in StampedPngs :
          (NewObject(b) /\ LatestPng(b))
              ~> (Emissions(ImageName(b)) = 1 \/ ~LatestPng(b))
    /\ [][\A n \in ImageNames :
            Emissions(n)' # Emissions(n)
                => \E b \in Blobs : LatestPng(b) /\ ImageName(b) = n]_vars
    /\ [](\A n \in ImageNames : Emissions(n) <= 1)

\* C9 witness: two new objects arrived before a polling cycle; the newer one
\* was emitted and the older one was not.
C9_Witness ==
    \E b, c \in Blobs :
        /\ NewObject(b) /\ NewObject(c)
        /\ store[b] < store[c]
        /\ Emissions(ImageName(b)) = 0
        /\ Emissions(ImageName(c)) = 1

\* The cycle about to start follows a failed one, and the newest PNG, b, is
\* one the listener would ingest.
RetryDue(b) ==
    /\ listen_pc = "running"
    /\ outcome \in {"error_list", "error_download"}
    /\ LatestPng(b)
    /\ ParseOk(ImageName(b))
    /\ ImageName(b) \notin seen_files
    /\ ~(start_time # NoTime /\ CreatedTime(ImageName(b)) < start_time)

\* C10 (ingest failure handling): a cycle in which listing or download fails
\* emits nothing, returns no file and leaves seen_files alone; the listen loop
\* goes on; and the next cycle in which listing works attempts the download
\* of the newest PNG again.
C10_IngestFailure ==
    /\ [][failures' > failures =>
            /\ seen_files' = seen_files
            /\ image_list' = image_list
            /\ disp' = disp
            /\ new_files' = <<>>
            /\ listen_pc' = "running"]_vars
    /\ [](listen_pc = "running")
    /\ [][\A b \in Blobs :
            (RetryDue(b) /\ store' = store /\ outcome' # "error_list") =>
                /\ Len(downloads') = Len(downloads) + 1
                /\ downloads'[Len(downloads')].blob = b]_vars

\* C10 witness: the download of an object failed in one cycle and succeeded
\* in the next.
C10_Witness ==
    /\ Len(downloads) >= 2
    /\ ~downloads[1].ok
    /\ downloads[2].ok
    /\ downloads[1].blob = downloads[2].blob
    /\ Emissions(ImageName(downloads[2].blob)) = 1

\* The text the event on_turn is handling carries, after strip().
TurnText == Strip(turn_event.transcript)

\* The debounce timers that are pending: armed, not cancelled, not fired.
Pending == {t \in DOMAIN timers : timers[t] = "armed"}

\* The number of utterances at the end of emitted that carry text.
RECURSIVE TrailingRun(_, _)
TrailingRun(s, text) ==
    IF s # <<>> /\ s[Len(s)] = text
      THEN 1 + TrailingRun(SubSeq(s, 1, Len(s) - 1), text)
      ELSE 0

\* C11 (immediate finalization): when on_turn handles an end_of_turn update
\* with a non-empty text that differs from last_processed_transcript at the
\* check of line 111, then once its own call of on_transcript_update is made
\* (it stands at line 114) exactly one utterance carrying that text has been
\* emitted, none of the earlier partial texts has been emitted after it, and
\* no debounce timer is pending.
C11_ImmediateFinalization ==
    (turn_event.end_of_turn /\ TurnText # <<>> /\ turn_pc = "l114") =>
        /\ TrailingRun(emitted, TurnText) = 1
        /\ Pending = {}

\* C12 (timer-driven finalization): when the timer armed by the latest
\* non-final update has run to its end and no further update has arrived,
\* exactly one utterance carrying the text of that update has been emitted.
C12_TimerFinalization ==
    \A t \in DOMAIN timers :
        (/\ turn_pc = "idle"
         /\ ~turn_event.end_of_turn
         /\ TurnText # <<>>
         /\ transcript_timer = t
         /\ timers[t] = "done") =>
            TrailingRun(emitted, TurnText) = 1

\* The streaming thread is inside the read-check-emit-write of on_turn.
InOnTurn == turn_pc \in {"l46", "l47", "l49", "l111", "l113", "l114", "l121"}

\* The thread of timer t is inside process_delayed.
InTimerCallback(t) == timers[t] \in {"l118", "l111", "l113", "l114"}

\* C13 (mutual exclusion of the segmenter state): on_turn and a timer callback
\* are never both inside their read-check-emit-write, no text is emitted twice
\* in a row and at most one timer is pending.
C13_MutualExclusion ==
    /\ ~(InOnTurn /\ \E t \in DOMAIN timers : InTimerCallback(t))
    /\ \A t, u \in DOMAIN timers :
          InTimerCallback(t) /\ InTimerCallback(u) => t = u
    /\ \A i \in 1..(Len(emitted) - 1) : emitted[i] # emitted[i + 1]
    /\ Cardinality(Pending) <= 1

\* C14 (stage ordering inside one text utterance): the clear signal of a
\* dispatch is in the sink only once its classification call has returned, its
\* answer call is made only once its clear signal is in the sink, and its
\* answer is in the sink only once the answer call has returned, after the
\* clear signal of the same dispatch.
C14_StageOrder ==
    \A d \in DOMAIN disp :
        disp[d].kind = "text" =>
            /\ EventsOfKind(d, "clear") # {} =>
                  /\ Call("classify", d) \in calls
                  /\ disp[d].classification # None
            /\ Call("answer", d) \in calls =>
                  Cardinality(EventsOfKind(d, "clear")) = 1
            /\ \A j \in EventsOfKind(d, "response") :
                  /\ Call("answer", d) \in calls
                  /\ disp[d].pc = "done"
                  /\ \E i \in EventsOfKind(d, "clear") : i < j

\* C14 witness: a text dispatch ran through both stages.
C14_Witness ==
    \E d \in DOMAIN disp :
        /\ disp[d].kind = "text"
        /\ disp[d].pc = "done"
        /\ EventsOfKind(d, "response") # {}

\* C15 as claimed (text-path service failure): a text dispatch whose
\* classification call or answer call raised has sent nothing at all to the
\* sink.
C15_FailureEmitsNothing ==
    \A d \in DOMAIN disp :
        (disp[d].kind = "text" /\ disp[d].pc = "failed") => EventsOf(d) = {}

\* C15 as amended: a text dispatch whose classification call raised has sent
\* nothing to the sink; one whose answer call raised has sent its clear signal
\* and nothing else: no answer and no error message.
C15_FailureEmitsNoResult ==
    \A d \in DOMAIN disp :
        (disp[d].kind = "text" /\ disp[d].pc = "failed") =>
            /\ Call("answer", d) \notin calls => EventsOf(d) = {}
            /\ Call("answer", d) \in calls =>
                  /\ Cardinality(EventsOf(d)) = 1
                  /\ EventsOf(d) = EventsOfKind(d, "clear")

\* C15 witness: one dispatch failed in the classification call, another in the
\* answer call.
C15_Witness ==
    \E d, e \in DOMAIN disp :
        /\ disp[d].kind = "text" /\ disp[d].pc = "failed"
        /\ Call("answer", d) \notin calls
        /\ disp[e].kind = "text" /\ disp[e].pc = "failed"
        /\ Call("answer", e) \in calls

\* C16 (image-path outcome): an image dispatch that passed the gate sends at
\* most one event to the sink while it runs and exactly one by its end: the
\* vision response through on_image_response when it ends normally, the error
\* message through on_response when Image.open or the vision call raised.
C16_ImageOutcome ==
    \A d \in DOMAIN disp :
        (disp[d].kind = "image" /\ PassedGate(d)) =>
            /\ Cardinality(EventsOf(d)) <= 1
            /\ disp[d].pc = "done" =>
                  /\ Cardinality(EventsOf(d)) = 1
                  /\ EventsOf(d) = EventsOfKind(d, "image_response")
                  /\ Call("vision", d) \in calls
            /\ disp[d].pc = "failed" =>
                  /\ Cardinality(EventsOf(d)) = 1
                  /\ EventsOf(d) = EventsOfKind(d, "error")
            /\ disp[d].pc \notin {"done", "failed"} => EventsOf(d) = {}

\* C16 witness: one image dispatch ended with the response, another with the
\* error message of a failed Image.open.
C16_Witness ==
    \E d, e \in DOMAIN disp :
        /\ disp[d].kind = "image" /\ disp[d].pc = "done"
        /\ disp[e].kind = "image" /\ disp[e].pc = "failed"
        /\ Call("vision", e) \notin calls

\* The step by which stop_streaming returns: from line 102 when there is no
\* client, else from line 108.
StopStreamingReturns == cmd_pc \in {"l102", "l108"} /\ cmd_pc' = "l189"

\* C17 (operator stop): when stop_streaming returns no debounce timer is
\* pending and client is None, and the disconnect of line 104 is attempted on
\* the client that is there, whether it returns or raises.
C17_StopStreaming ==
    /\ [][StopStreamingReturns => (Pending' = {} /\ client' = 0)]_vars
    /\ [][(cmd_pc = "l104" /\ cmd_pc' = "l108" /\ client # 0)
              => client \in disconnects']_vars

\* C18 (segmentation state is reset): a session that is started begins with
\* an empty current_transcript and an empty last_processed_transcript, so the
\* text dispatched last in the session before is emitted again.
C18_FreshState ==
    [][Len(sess') > Len(sess) =>
          (current_transcript' = <<>> /\ last_processed_transcript' = <<>>)]_vars

\* The recording thread s has left start_streaming.
Left(s) == sess[s].pc \in {"l174", "done"}

\* C19 (session cleanup on every exit path): when a recording thread has left
\* start_streaming, disconnect(terminate=True) has been attempted on the
\* client it created and self.client no longer refers to that client; when it
\* left with an exception, the error status was reported through
\* on_status_update; and it makes no second connect.
C19_SessionCleanup ==
    /\ [](\A s \in DOMAIN sess :
            Left(s) =>
                /\ s \in disconnects
                /\ client # s
                /\ sess[s].raising => Status("Error starting recording", s) \in status)
    /\ [][\A s \in DOMAIN sess :
            Left(s) => (Left(s))']_vars

\* C20 (watcher cancellation): when the poll loop has been stopped, the cycle
\* that was in progress has finished: every object that was downloaded has
\* its name in seen_files and was handed to on_new_image.
C20_CooperativeStop ==
    listen_pc = "exited" =>
        \A i \in DOMAIN downloads :
            downloads[i].ok =>
                /\ ImageName(downloads[i].blob) \in seen_files
                /\ Emissions(ImageName(downloads[i].blob)) >= 1

\* The step by which a service call of dispatch d raises: the thread goes to
\* its except clause.
Raises(d) ==
    /\ disp[d].pc \in {"classifying", "answering", "analysing"}
    /\ disp'[d].pc \in {"failed", "l134"}

\* Dispatch d has not reached the end of its thread.
Running(d) == disp[d].pc \notin {"done", "failed", "skipped"}

Waiting(d) == disp[d].pc \in {"classifying", "answering", "analysing"}

\* The newest PNG of the bucket is one a cycle would ingest.
Ingestable ==
    /\ PngBlobs # {}
    /\ ParseOk(ImageName(Newest(PngBlobs)))
    /\ Unseen(ImageName(Newest(PngBlobs)))
    /\ ~TooOld(CreatedTime(ImageName(Newest(PngBlobs))))

\* C22 (non-blocking submission): the step that submits a dispatch makes no
\* service call, leaves the thread it started at its gate and the other
\* dispatches alone, and brings the producer past the submission in that same
\* step; and while a dispatch waits for a service the streaming thread can
\* take a Turn event and go on inside on_turn, and the watcher can run a cycle
\* and ingest.
C22_NonBlockingSubmission ==
    /\ [][Len(disp') > Len(disp) =>
            /\ Len(disp') = Len(disp) + 1
            /\ disp'[Len(disp')].pc = "gate"
            /\ \A d \in DOMAIN disp : disp'[d] = disp[d]
            /\ calls' = calls
            /\ \/ /\ Len(emitted') = Len(emitted) + 1
                  /\ turn_pc' = "l114"
               \/ /\ outcome' = "new_file"
                  /\ listen_pc' = "running"]_vars
    /\ []((\E d \in DOMAIN disp : Waiting(d)) =>
            /\ (turn_pc = "idle" /\ turns < MaxPipeTurns) => ENABLED PipeTurnBegin
            /\ turn_pc # "idle" => ENABLED PipeSegStep
            /\ ENABLED ListenCheck
            /\ Ingestable => ENABLED CheckIngest)

\* C22 witness: an image dispatch is waiting for the vision service and a
\* text dispatch submitted after it for the classifier, while on_turn has
\* returned and the watcher has run a further cycle.
C22_Witness ==
    \E d, e \in DOMAIN disp :
        /\ d < e
        /\ disp[d].kind = "image" /\ disp[d].pc = "analysing"
        /\ disp[e].kind = "text" /\ disp[e].pc = "classifying"
        /\ turn_pc = "idle"
        /\ outcome = "seen"

\* The step is a polling cycle (in WatchSpec every other step is an upload).
CycleStep == clock' = clock

\* The step downloads nothing, hands nothing on and leaves seen_files alone.
NoIngestStep ==
    /\ downloads' = downloads
    /\ seen_files' = seen_files
    /\ image_list' = image_list
    /\ disp' = disp
    /\ sink' = sink
    /\ new_files' = <<>>

\* C23 (idle polling is a no-op): a polling cycle over a store that holds no
\* PNG, or whose newest PNG has its name in seen_files, downloads nothing,
\* hands nothing on and leaves seen_files unchanged; and a cycle that the store
\* served (listing and download worked) leaves a state in which nothing is
\* left to ingest, so that a further cycle over the unchanged store changes
\* nothing.
C23_IdlePolling ==
    /\ [][(CycleStep /\ (PngBlobs = {} \/ ~Unseen(ImageName(Newest(PngBlobs)))))
            => NoIngestStep]_vars
    /\ [][(CycleStep /\ failures' = failures) => ~Ingestable']_vars
    /\ [][(CycleStep /\ ~Ingestable) => NoIngestStep]_vars

\* C23 witness: a cycle found the newest PNG, whose name was loaded as seen at
\* startup, in seen_files; nothing was ever downloaded.
C23_Witness ==
    /\ outcome = "seen"
    /\ PngBlobs # {}
    /\ ImageName(Newest(PngBlobs)) \in loaded
    /\ downloads = <<>>
    /\ image_list = <<>>

\* C24 (newest-only selection): a polling cycle makes at most one download
\* call and at most one call of on_new_image; the object it downloads is the
\* PNG of the bucket with the greatest creation time, the name it hands on and
\* the only name it adds to seen_files is the name of that object; so an
\* object that is not the newest is not downloaded, and no name is added on
\* its behalf.
C24_NewestOnly ==
    [][CycleStep =>
          /\ Len(downloads') <= Len(downloads) + 1
          /\ Len(image_list') <= Len(image_list) + 1
          /\ Len(disp') <= Len(disp) + 1
          /\ Len(new_files') <= 1
          /\ Len(downloads') > Len(downloads) =>
                /\ LatestPng(downloads'[Len(downloads')].blob)
                /\ \A b \in Blobs :
                      ~LatestPng(b) => downloads'[Len(downloads')].blob # b
          /\ \A n \in seen_files' \ seen_files :
                \E b \in Blobs : LatestPng(b) /\ ImageName(b) = n
          /\ Len(image_list') > Len(image_list) =>
                \E b \in Blobs : LatestPng(b) /\ ImageName(b) = image_list'[1].name]_vars

\* C24 witness: two PNG files that a cycle would accept are in the bucket; a
\* cycle has downloaded the newer one only, and the older one is neither
\* downloaded nor in seen_files.
C24_Witness ==
    \E b, c \in Blobs :
        /\ NewObject(b) /\ NewObject(c)
        /\ store[b] < store[c]
        /\ outcome = "new_file"
        /\ Len(downloads) = 1
        /\ downloads[1].blob = c
        /\ ImageName(b) \notin seen_files

\* The step by which the thread of timer t calls on_transcript_update.
TimerEmits(t) == timers[t] = "l113" /\ timers'[t] = "l114"

\* The step by which on_turn calls on_transcript_update.
OnTurnEmits == turn_pc = "l113" /\ turn_pc' = "l114"

\* C25 (no half-formed utterance): on_turn emits only the text of the final
\* update it is handling; and the thread of a timer emits only while its timer
\* is still the one transcript_timer refers to and no later update is being
\* handled by on_turn, so that the timer of an earlier partial causes no
\* emission once a later update has arrived.
C25_NoHalfFormed ==
    /\ [][OnTurnEmits =>
            /\ turn_event.end_of_turn
            /\ emitted' = Append(emitted, TurnText)]_vars
    /\ [][\A t \in DOMAIN timers :
            TimerEmits(t) => (transcript_timer = t /\ ~InOnTurn)]_vars

\* The step by which a cycle of the watcher downloads an object.
Downloads ==
    /\ Len(downloads') = Len(downloads) + 1
    /\ downloads'[Len(downloads')].ok

\* C26 (freeze does not stop the producers): while is_frozen is true the
\* streaming thread takes Turn events and goes on inside on_turn, and its
\* emission sends the transcript to the sink and submits it; the listen loop
\* starts cycles, and a cycle that downloads adds the name to seen_files, lists
\* the image and submits it; set_frozen changes nothing of the segmenter or
\* the watcher; what is_frozen stops is the dispatch at its gate, which makes
\* no service call and sends no result.
C26_FreezeLeavesProducers ==
    /\ [](is_frozen =>
            /\ (turn_pc = "idle" /\ turns < MaxPipeTurns) => ENABLED PipeTurnBegin
            /\ turn_pc # "idle" => ENABLED PipeSegStep
            /\ ENABLED ListenCheck
            /\ Ingestable => ENABLED CheckIngest)
    /\ [][(is_frozen /\ OnTurnEmits) =>
            /\ emitted' = Append(emitted, current_transcript)
            /\ sink' = Append(sink, Event("transcription", 0))
            /\ disp' = Append(disp, NewThread("text", current_transcript))]_vars
    /\ [][(is_frozen /\ Downloads) =>
            LET image_name == ImageName(downloads'[Len(downloads')].blob) IN
            /\ seen_files' = seen_files \cup {image_name}
            /\ image_name \notin seen_files
            /\ Cardinality({i \in DOMAIN image_list' :
                                image_list'[i].name = image_name}) = 1
            /\ disp' = Append(disp, NewThread("image", LocalPath(image_name)))]_vars
    /\ [][is_frozen' # is_frozen => UNCHANGED <<segVars, watchVars>>]_vars
    /\ [][FrozenGateStep]_vars

\* C26 witness: with the gate frozen an utterance was finalized and sent to
\* the sink and an image was downloaded and recorded; both dispatches were
\* stopped at the gate and no service call was made.
C26_Witness ==
    /\ is_frozen
    /\ calls = {}
    /\ emitted # <<>>
    /\ \E i \in DOMAIN sink : sink[i] = Event("transcription", 0)
    /\ seen_files # {}
    /\ \E d, e \in DOMAIN disp :
          /\ disp[d].kind = "text" /\ disp[d].pc = "skipped"
          /\ disp[e].kind = "image" /\ disp[e].pc = "skipped"

\* C27 (last_processed_transcript is a text that was emitted): in every state
\* last_processed_transcript is the empty string or a text that
\* on_transcript_update was called with, and the step that writes it writes
\* the text of the utterance emitted last.
C27_LastProcessedWasEmitted ==
    /\ [](last_processed_transcript = <<>>
            \/ \E i \in DOMAIN emitted : emitted[i] = last_processed_transcript)
    /\ [][last_processed_transcript' # last_processed_transcript =>
            (emitted # <<>> /\ last_processed_transcript' = emitted[Len(emitted)])]_vars

\* stop_streaming, called after the session was started, has returned, and
\* stop_recording has not returned yet: it waits for the recording thread.
StopStreamingReturned == sess # <<>> /\ cmd_pc = "l189"

\* C28 (nothing after the stop): once stop_streaming has returned
\* on_transcript_update is not called and no debounce timer becomes pending,
\* whatever on_turn and the timer threads were doing when it returned.
C28_QuietAfterStop ==
    [][StopStreamingReturned => (emitted' = emitted /\ Pending' \subseteq Pending)]_vars

\* The recording threads that are inside stream() on an open session.
ActiveSessions ==
    {s \in DOMAIN sess : sess[s].pc = "streaming" /\ conn[sess[s].obj] = "open"}

\* C29, first part: the disconnect of the finally clause of a recording thread
\* is called on the client that thread created, and the thread clears
\* self.client only while it refers to that client.
C29_OwnTeardown ==
    [][\A s \in DOMAIN sess :
          /\ (sess[s].pc = "l89" /\ sess'[s].pc = "l93" /\ client # 0) => client = s
          /\ (sess[s].pc = "l93" /\ sess'[s].pc = "l174") => client \in {0, s}]_vars

\* C29, second part: the exit of a recording thread does not clear
\* is_recording once a later session was started.
C29_FlagOfNewSession ==
    [][\A s \in DOMAIN sess :
          (sess[s].pc = "l174" /\ sess'[s].pc = "done" /\ Len(sess) > s)
              => is_recording' = is_recording]_vars

\* C29, third part: at most one streaming session is active at a time.
C29_OneActiveSession == Cardinality(ActiveSessions) <= 1

\* C29 (a session tears down only itself): the three parts together.
C29_SessionOwnership ==
    /\ C29_OwnTeardown
    /\ C29_FlagOfNewSession
    /\ []C29_OneActiveSession

\* The image dispatches that process_image started for image_name.
ImageDispatches(image_name) ==
    {d \in DOMAIN disp : disp[d].kind = "image" /\ disp[d].arg = LocalPath(image_name)}

\* A result for image_name is in the sink: the vision response or the error
\* message of its dispatch.
Answered(image_name) ==
    \E d \in ImageDispatches(image_name) :
        EventsOfKind(d, "image_response") \cup EventsOfKind(d, "error") # {}

\* The dispatch of image_name found is_frozen true at its gate and returned.
Dropped(image_name) ==
    \E d \in ImageDispatches(image_name) : disp[d].pc = "skipped" /\ EventsOf(d) = {}

\* C30 as claimed, in its weakest reading: an image whose name is in
\* seen_files and whose dispatch returned at the frozen gate has a result in
\* the sink some time after the gate is unfrozen.
C30_EveryIngestedImageAnswered ==
    \A n \in ImageNames :
        (n \in seen_files /\ Dropped(n) /\ ~is_frozen) ~> Answered(n)

\* C30 as amended: every image whose name is added to seen_files is handed to
\* process_image once and never again; its dispatch ends with one result in
\* the sink when it finds is_frozen false at its gate, and with none, for
\* good, when it finds is_frozen true, whatever set_frozen does later.
C30_AnsweredUnlessFrozenAtGate ==
    /\ \A n \in ImageNames : (n \in seen_files) ~> (Answered(n) \/ Dropped(n))
    /\ [](\A n \in ImageNames :
            /\ n \in seen_files <=> Cardinality(ImageDispatches(n)) = 1
            /\ n \notin seen_files => ImageDispatches(n) = {}
            /\ ~(Answered(n) /\ Dropped(n)))
    /\ [][\A n \in ImageNames : Dropped(n) => Dropped(n)']_vars

\* C30 witness: an image was ingested while the gate was frozen and its
\* dispatch returned at the gate; the gate is unfrozen now, the name is in
\* seen_files, a later cycle has found it there, and no result is in the sink.
C30_Witness ==
    /\ ~is_frozen
    /\ outcome = "seen"
    /\ \E n \in seen_files : Dropped(n) /\ ~Answered(n)

\* ---- C31
\* the text dispatches, in the order _handle_transcript submitted them
TextDispatches == {d \in DOMAIN disp : disp[d].kind = "text"}

\* the transcript updates the client received, as positions of the sink
TranscriptUpdates == {i \in DOMAIN sink : sink[i].ev = "transcription"}

\* _handle_transcript sends one transcript update and submits one dispatch per
\* utterance: the update of dispatch d is the one with the same rank
UpdateOf(d) ==
    CHOOSE i \in TranscriptUpdates :
        Cardinality({j \in TranscriptUpdates : j <= i})
            = Cardinality({e \in TextDispatches : e <= d})

\* the clear signals dispatch d sent, as positions of the sink
ClearsOf(d) == {i \in DOMAIN sink : sink[i] = Event("clear", d)}

\* C31, first part: the transcript of an utterance is at the client when the
\* utterance is submitted to the dispatcher, so every text dispatch has its
\* transcript update in the sink.
C31_UpdateBeforeSubmission ==
    Cardinality(TranscriptUpdates) = Cardinality(TextDispatches)

\* C31, second part: the clear signal of an utterance comes after that
\* utterance's own transcript update.
C31_ClearAfterOwnUpdate ==
    \A d \in TextDispatches : \A i \in ClearsOf(d) : UpdateOf(d) < i

\* C31: the transcript of an utterance reaches the client before the utterance
\* is submitted to the dispatcher, and the clear signal sent for a relevant
\* utterance reaches the client after that utterance's own transcript update
\* and before the transcript update of any later utterance, so that a clear
\* signal never removes the live transcript of a newer utterance.
C31_ClearBeforeNewerUpdate ==
    /\ C31_UpdateBeforeSubmission
    /\ C31_ClearAfterOwnUpdate
    /\ \A d \in TextDispatches : \A e \in TextDispatches :
          d < e => \A i \in ClearsOf(d) : i < UpdateOf(e)

\* ---- C32
\* everything but what the latest command returned
exceptResult ==
    <<client, is_recording, sess, conn, cmd_pc, disconnects, status, audio_handler,
      segVars, dispVars, watchVars>>

\* the latest command has just returned, and it was command cmd
Returns(cmd) == cmd_result' # cmd_result /\ cmd_result'.cmd = cmd

\* a recording thread is started, or the client is told that recording starts
StartsRecording ==
    \/ Len(sess') > Len(sess)
    \/ Status("Recording", 0) \in status' \ status

\* C32: start_recording while is_recording is true starts no recording thread,
\* returns the error 'Already recording' and changes nothing: the running
\* client is not disconnected and is_recording stays true. With no audio
\* handler configured start_recording and stop_recording return the error
\* 'Audio handler not initialized' and change nothing.
C32_RefusedCommands ==
    [][ /\ (audio_handler /\ is_recording) => ~StartsRecording
        /\ (audio_handler /\ is_recording /\ Returns("start_recording")) =>
              /\ cmd_result' = Returned("start_recording", FALSE, "Already recording")
              /\ UNCHANGED exceptResult
        /\ ~audio_handler =>
              /\ UNCHANGED exceptResult
              /\ \A cmd \in {"start_recording", "stop_recording"} :
                    Returns(cmd) =>
                       cmd_result' = Returned(cmd, FALSE, "Audio handler not initialized")
      ]_vars

\* start_recording has been refused while a session was streaming: the
\* session, its client and the flag are as they were.
C32_Witness ==
    /\ cmd_result = Returned("start_recording", FALSE, "Already recording")
    /\ is_recording
    /\ client # 0
    /\ conn[client] = "open"
    /\ sess[client].pc = "streaming"
    /\ disconnects = {}

====
